---- MODULE Spec2Model ----
(***************************************************************************)
(* State-machine model of the tracking engine of claude-code-but-zelda:    *)
(*   zelda_core.ZeldaManager            (all-in-one manager)               *)
(*   src/core/stats_tracker.StatsTracker                                   *)
(*   src/features/combo_system.ComboTracker                                *)
(*   src/features/achievement_system.AchievementManager                    *)
(*   performance_optimizations.CommandDebouncer                            *)
(* A behaviour is the life of one object of one of these classes: obj      *)
(* names the class that was constructed, and only that object's methods    *)
(* are called.  Wall-clock stamps (datetime.now()) are abstracted to the   *)
(* ordinal of the session in which they are taken; the debouncer keeps     *)
(* its own millisecond clock.                                              *)
(***************************************************************************)
EXTENDS Integers, Sequences, FiniteSets, TLC

VARIABLES
    obj,                  \* class of the object under execution
    call,                 \* last method call: its name, the success flag or command
                          \* it was given, whether it repeats an end_session, and
                          \* whether it is the 1st, 2nd or a later should_process
    ret,                  \* value returned by the last call
    \* ---- ZeldaManager (zelda_core.py) ----
    config,               \* self.config["sounds"]
    config_file,          \* ~/.zelda/config.json
    all_time_stats,       \* self.all_time_stats
    current_session,      \* self.current_session (NoSession or SessionStats)
    combo_state,          \* self.combo_state
    achievement_progress, \* self.achievement_progress
    error_free_count,     \* self.error_free_count
    stats_file,           \* ~/.zelda/stats.json
    achievements_file,    \* ~/.zelda/achievements.json
    session_files,        \* ~/.zelda/sessions/<id>.json
    \* ---- StatsTracker (stats_tracker.py) ----
    st_all_time_stats,    \* self.all_time_stats
    st_current_session,   \* self.current_session
    st_stats_file,        \* stats_dir/stats.json
    st_session_files,     \* stats_dir/sessions/<id>.json
    \* ---- ComboTracker (combo_system.py) ----
    state,                \* self.state
    \* ---- AchievementManager (achievement_system.py) ----
    progress,             \* self.progress
    am_achievements_file, \* data_dir/achievements.json
    \* ---- CommandDebouncer (performance_optimizations.py) ----
    last_commands,        \* self.last_commands, deque(maxlen=10)
    now,                  \* time.time() * 1000 at the last call
    accepted,             \* every <<time, command>> should_process answered True to
    \* ---- threads running ZeldaManager.record_command ----
    threads,              \* per thread: the statement it is at and its operands
    \* ---- OptimizedFileIO (performance_optimizations.py) ----
    io_file,              \* the file at file_path
    io_tmp,               \* the file at file_path.with_suffix('.tmp')
    io_writers,           \* per write_json_async thread: its position and data
    file_cache,           \* self.file_cache[file_path]
    cache_age,            \* time.time() - self.last_cache_time[file_path], in
                          \* ticks, beyond cache_ttl only "cache_ttl or more"
    io_last,              \* who wrote to file_path last: the writer thread of
                          \* the latest write_json_async call, 0 for nobody yet,
                          \* -1 for a writer outside this object
    \* ---- BatchProcessor (performance_optimizations.py) ----
    pending_operations,   \* self.pending_operations; the n-th operation added is n
    since_flush,          \* time.time() - self.last_flush, in ticks, beyond
                          \* flush_interval only "more than flush_interval"
    sleeping,             \* ticks the background thread has still to sleep
    added,                \* operations handed to add_operation so far
    executed,             \* per operation: how many times it has been run
    alive,                \* the process, and with it the daemon thread, is running
    lock,                 \* self.lock: "free", or the thread that holds it
    submitted,            \* operations submitted to the executor of the _flush
                          \* under way and not yet picked up by a worker
    running               \* operations a worker has started and not finished

zmVars  == <<config, config_file, all_time_stats, current_session, combo_state,
             achievement_progress, error_free_count, stats_file,
             achievements_file, session_files>>
stVars  == <<st_all_time_stats, st_current_session, st_stats_file, st_session_files>>
ctVars  == <<state>>
amVars  == <<progress, am_achievements_file>>
debVars == <<last_commands, now, accepted>>
thVars  == <<threads>>
ioVars  == <<io_file, io_tmp, io_writers, file_cache, cache_age, io_last>>
bpVars  == <<pending_operations, since_flush, sleeping, added, executed, alive,
             lock, submitted, running>>
vars    == <<obj, call, ret, zmVars, stVars, ctVars, amVars, debVars, thVars, ioVars,
             bpVars>>

\* ------------------------------------------------------------------------
\* Bounds of the exploration
\* ------------------------------------------------------------------------
MaxSessions    == 2     \* start_session calls
MaxCommands    == 3     \* commands recorded, all-time and current session together
MaxCombos      == 7     \* ComboTracker tier crossings
MaxClock       == 300   \* last millisecond at which should_process is called
MaxAccepted    == 12    \* should_process calls answered True in the crowded history
MaxOperations  == 7     \* operations added to one BatchProcessor
\* the long-streak exploration: one session, one tool
StreakCommands == 51    \* commands recorded; the longest ComboTracker streak
StreakFailures == 1     \* failed commands among them

MaxThreadCalls == 1     \* record_command calls made by each thread
MaxWrites      == 1     \* write_json_async calls served by each writer thread
HookClock      == 200   \* last millisecond at which a tool event is delivered
DiskCommands   == 2     \* commands recorded by one process under disk faults

\* Inputs
Tools      == {"Bash", "Edit"}
SessionIds == <<"s1", "s2", "s3", "s4">>   \* the host names each session afresh

\* Python's None; for an Optional record, for an Optional time stamp (stamps
\* are session ordinals, from 1), and a file that does not exist
None      == "None"
NoSession == [session_id |-> None]
NoStamp   == 0
Absent    == [exists |-> FALSE]

\* ------------------------------------------------------------------------
\* Python dict as an insertion-ordered sequence of <<key, value>> pairs
\* ------------------------------------------------------------------------
DictKeys(d) == {d[i][1] : i \in 1..Len(d)}

DictGet(d, k, default) ==
    IF k \in DictKeys(d)
    THEN LET i == CHOOSE j \in 1..Len(d) : d[j][1] = k IN d[i][2]
    ELSE default

DictSet(d, k, v) ==
    IF k \in DictKeys(d)
    THEN [i \in 1..Len(d) |-> IF d[i][1] = k THEN <<k, v>> ELSE d[i]]
    ELSE Append(d, <<k, v>>)

RECURSIVE DictSum(_)
DictSum(d) == IF d = <<>> THEN 0 ELSE d[1][2] + DictSum(Tail(d))

Max(a, b) == IF a >= b THEN a ELSE b
Min(a, b) == IF a <= b THEN a ELSE b

\* ------------------------------------------------------------------------
\* Dataclasses (zelda_core.py and stats_tracker.py share these shapes)
\* ------------------------------------------------------------------------
SessionStats(session_id, stamp) ==
    [session_id            |-> session_id,
     start_time            |-> stamp,
     end_time              |-> NoStamp,
     total_commands        |-> 0,
     successful_commands   |-> 0,
     failed_commands       |-> 0,
     current_streak        |-> 0,
     max_streak            |-> 0,
     tools_used            |-> <<>>,
     achievements_unlocked |-> <<>>]

AllTimeStats ==
    [total_sessions      |-> 0,
     total_commands      |-> 0,
     total_successes     |-> 0,
     total_failures      |-> 0,
     longest_streak      |-> 0,
     longest_streak_date |-> NoStamp,
     favorite_tool       |-> None,
     tool_usage          |-> <<>>,
     achievements        |-> <<>>,
     milestones          |-> <<>>]

\* zelda_core.ComboState (last_level_reached is the level's name)
ComboState ==
    [current_streak        |-> 0,
     highest_streak        |-> 0,
     last_level_reached    |-> "NONE",
     total_combos_achieved |-> 0]

\* ComboLevel members in the order both implementations scan them
ComboLevel ==
    << [name |-> "MASTER",   threshold |-> 50, sound |-> "session_start.wav"],
       [name |-> "PLATINUM", threshold |-> 20, sound |-> "shrine_complete.wav"],
       [name |-> "GOLD",     threshold |-> 10, sound |-> "achievement.wav"],
       [name |-> "SILVER",   threshold |-> 5,  sound |-> "heart_get.wav"],
       [name |-> "BRONZE",   threshold |-> 3,  sound |-> "item_small.wav"] >>

\* zelda_core.ACHIEVEMENTS, in dict order
ACHIEVEMENTS ==
    << <<"first_step", 1>>, <<"apprentice", 10>>, <<"journeyman", 50>>,
       <<"master", 100>>, <<"legend", 500>>,
       <<"combo_bronze", 3>>, <<"combo_silver", 5>>, <<"combo_gold", 10>>,
       <<"combo_platinum", 20>>,
       <<"flawless_ten", 10>>, <<"error_free", 25>> >>

\* zelda_core.AchievementProgress
AchievementProgress ==
    [achievements_unlocked |-> {},   \* keys of the id -> unlock_date dict
     progress              |-> <<>>] \* id -> current_progress dict

SoundsConfig == [combo : BOOLEAN, achievements : BOOLEAN]

\* DEFAULT_CONFIG["sounds"]
DEFAULT_CONFIG == [combo |-> TRUE, achievements |-> TRUE]

\* ------------------------------------------------------------------------
\* Files: what json.dump(asdict(x)) leaves on disk and what json.load hands
\* to the dataclass constructor
\* ------------------------------------------------------------------------

\* Field names in dataclass order
AllTimeStatsFields ==
    <<"total_sessions", "total_commands", "total_successes", "total_failures",
      "longest_streak", "longest_streak_date", "favorite_tool", "tool_usage",
      "achievements", "milestones">>

SessionStatsFields ==
    <<"session_id", "start_time", "end_time", "total_commands",
      "successful_commands", "failed_commands", "current_streak", "max_streak",
      "tools_used", "achievements_unlocked">>

AchievementProgressFields == <<"achievements_unlocked", "progress">>

\* dataclasses.asdict: the fields as <<name, value>> members, in field order
asdict(rec, fields) == [i \in 1..Len(fields) |-> <<fields[i], rec[fields[i]]>>]

\* A file opened with 'w' whose content has not been written out: empty or
\* cut short, json.load raises JSONDecodeError on it
Truncated == [exists |-> TRUE, kind |-> "partial"]

\* A file holding the JSON object json.dump wrote
json_dump(members) == [exists |-> TRUE, kind |-> "object", members |-> members]

\* cls(**data) for a dataclass whose fields all have defaults: TypeError on a
\* name that is not a field, the default for a field that is not given
Unexpected(members, defaults) ==
    \E i \in 1..Len(members) : members[i][1] \notin DOMAIN defaults

FromKwargs(members, defaults) ==
    [f \in DOMAIN defaults |->
        LET given == {i \in 1..Len(members) : members[i][1] = f}
        IN  IF given = {} THEN defaults[f]
            ELSE members[CHOOSE i \in given : \A j \in given : j <= i][2]]

\* ------------------------------------------------------------------------
\* ZeldaManager
\* ------------------------------------------------------------------------

\* save_config: the content of config.json afterwards
ZeldaManager_save_config(cfg) == json_dump(<< <<"sounds", cfg>> >>)

\* _load_config: whatever json.load returns is the configuration, the default
\* when the file is missing or json.load raises
ZeldaManager__load_config(file) ==
    IF ~file.exists THEN DEFAULT_CONFIG
    ELSE IF file.kind \in {"partial", "undecodable"} THEN DEFAULT_CONFIG
    ELSE IF file.kind # "object" THEN [kind |-> file.kind]
    ELSE IF \E i \in 1..Len(file.members) : file.members[i][1] = "sounds"
         THEN file.members[CHOOSE i \in 1..Len(file.members) :
                               file.members[i][1] = "sounds"][2]
         ELSE [kind |-> "object", members |-> file.members]

\* save_stats: the content of stats.json afterwards
ZeldaManager_save_stats(ats) == json_dump(asdict(ats, AllTimeStatsFields))

\* Variant: the file is read but a default record is returned
ZeldaManager__load_all_time_stats_default(file) == AllTimeStats

\* _load_all_time_stats: any exception of json.load or AllTimeStats(**data)
\* is swallowed and the default record returned
ZeldaManager__load_all_time_stats(file) ==
    IF ~file.exists THEN AllTimeStats
    ELSE IF file.kind # "object" THEN AllTimeStats
    ELSE IF Unexpected(file.members, AllTimeStats) THEN AllTimeStats
    ELSE FromKwargs(file.members, AllTimeStats)

\* save_achievements: the content of achievements.json afterwards
ZeldaManager_save_achievements(ap) == json_dump(asdict(ap, AchievementProgressFields))

ZeldaManager__load_achievements(file) ==
    IF ~file.exists THEN AchievementProgress
    ELSE IF file.kind # "object" THEN AchievementProgress
    ELSE IF Unexpected(file.members, AchievementProgress) THEN AchievementProgress
    ELSE FromKwargs(file.members, AchievementProgress)

\* __init__: a new manager over the files the previous one left
ZeldaManager___init__ ==
    /\ obj = "ZeldaManager"
    /\ config' = ZeldaManager__load_config(config_file)
    /\ all_time_stats' = ZeldaManager__load_all_time_stats(stats_file)
    /\ current_session' = NoSession
    /\ combo_state' = ComboState
    /\ achievement_progress' = ZeldaManager__load_achievements(achievements_file)
    /\ error_free_count' = 0
    /\ call' = [op |-> "__init__"]
    /\ ret' = None
    /\ UNCHANGED <<obj, bpVars, thVars, ioVars, config_file, stats_file, achievements_file,
                   session_files, stVars, ctVars, amVars, debVars>>

\* Variant: start_session leaves the combo state and the error-free run alone
ZeldaManager_start_session_keeps_streak(session_id) ==
    /\ obj = "ZeldaManager"
    /\ current_session' = SessionStats(session_id, all_time_stats.total_sessions + 1)
    /\ all_time_stats' = [all_time_stats EXCEPT !.total_sessions = @ + 1]
    /\ stats_file' = ZeldaManager_save_stats(all_time_stats')
    /\ call' = [op |-> "start_session"]
    /\ ret' = None
    /\ UNCHANGED <<obj, bpVars, thVars, ioVars, config, config_file, combo_state, error_free_count,
                   achievement_progress, achievements_file,
                   session_files, stVars, ctVars, amVars, debVars>>

ZeldaManager_start_session(session_id) ==
    /\ obj = "ZeldaManager"
    /\ current_session' = SessionStats(session_id, all_time_stats.total_sessions + 1)
    /\ all_time_stats' = [all_time_stats EXCEPT !.total_sessions = @ + 1]
    /\ combo_state' = ComboState
    /\ error_free_count' = 0
    /\ stats_file' = ZeldaManager_save_stats(all_time_stats')
    /\ call' = [op |-> "start_session"]
    /\ ret' = None
    /\ UNCHANGED <<obj, bpVars, thVars, ioVars, config, config_file, achievement_progress, achievements_file,
                   session_files, stVars, ctVars, amVars, debVars>>

\* Variant: the session's failures are not added to total_failures
ZeldaManager_fold_no_failures(ats, session) ==
    LET summed == [ats EXCEPT
                     !.total_commands  = @ + session.total_commands,
                     !.total_successes = @ + session.successful_commands]
    IN  IF session.max_streak > summed.longest_streak
        THEN [summed EXCEPT !.longest_streak = session.max_streak,
                            !.longest_streak_date = ats.total_sessions]
        ELSE summed

\* Lines 215-221: fold the session's counters into the all-time record
ZeldaManager_fold(ats, session) ==
    LET summed == [ats EXCEPT
                     !.total_commands  = @ + session.total_commands,
                     !.total_successes = @ + session.successful_commands,
                     !.total_failures  = @ + session.failed_commands]
    IN  IF session.max_streak > summed.longest_streak
        THEN [summed EXCEPT !.longest_streak = session.max_streak,
                            !.longest_streak_date = ats.total_sessions]
        ELSE summed

\* Variant: the ended session stays the current one
ZeldaManager_cleared_kept(session) == session

\* Line 229: self.current_session = None
ZeldaManager_cleared(session) == NoSession

ZeldaManager_end_session ==
    /\ obj = "ZeldaManager"
    /\ call' = [op |-> "end_session", again |-> call.op = "end_session"]
    /\ ret' = None
    /\ IF current_session = NoSession
       THEN UNCHANGED <<all_time_stats, current_session, stats_file, session_files>>
       ELSE LET ended == [current_session EXCEPT !.end_time = all_time_stats.total_sessions]
            IN  /\ all_time_stats' = ZeldaManager_fold(all_time_stats, ended)
                /\ session_files' = [session_files EXCEPT ![ended.session_id] =
                                       json_dump(asdict(ended, SessionStatsFields))]
                /\ stats_file' = ZeldaManager_save_stats(all_time_stats')
                /\ current_session' = ZeldaManager_cleared(ended)
    /\ UNCHANGED <<obj, bpVars, thVars, ioVars, config, config_file, combo_state, achievement_progress,
                   error_free_count, achievements_file,
                   stVars, ctVars, amVars, debVars>>

\* Variant: a failure leaves the error-free run as it is
ZeldaManager_error_free_kept(count, success) ==
    IF success THEN count + 1 ELSE count

\* Lines 240-245: error_free_count += 1 on success, = 0 on failure
ZeldaManager_error_free(count, success) ==
    IF success THEN count + 1 ELSE 0

\* Variant: a failed command is added to the total but not to failed_commands
ZeldaManager_count_total_only(session, tool_name, success) ==
    [session EXCEPT
       !.total_commands      = @ + 1,
       !.successful_commands = IF success THEN @ + 1 ELSE @,
       !.tools_used          = DictSet(@, tool_name, DictGet(@, tool_name, 0) + 1)]

\* Lines 239-249: the session counters and the tool histogram
ZeldaManager_count(session, tool_name, success) ==
    [session EXCEPT
       !.total_commands      = @ + 1,
       !.successful_commands = IF success THEN @ + 1 ELSE @,
       !.failed_commands     = IF success THEN @ ELSE @ + 1,
       !.tools_used          = DictSet(@, tool_name, DictGet(@, tool_name, 0) + 1)]

\* Lines 270-272: index of the level whose threshold the streak equals,
\* scanning MASTER..BRONZE from index i; 0 when there is none
RECURSIVE LevelAt(_, _)
LevelAt(streak, i) ==
    IF i > Len(ComboLevel) THEN 0
    ELSE IF streak = ComboLevel[i].threshold THEN i
    ELSE LevelAt(streak, i + 1)

\* Variant: a streak of exactly 3 is broken without the break cue
ZeldaManager__update_combo_above_three(cs, success, cfg) ==
    IF success
    THEN LET streak == cs.current_streak + 1
             s1 == [cs EXCEPT !.current_streak = streak,
                              !.highest_streak = IF streak > @ THEN streak ELSE @]
             level == LevelAt(streak, 1)
         IN  IF level = 0
             THEN [state |-> s1, sound |-> None]
             ELSE [state |-> [s1 EXCEPT !.last_level_reached = ComboLevel[level].name,
                                        !.total_combos_achieved = @ + 1],
                   sound |-> IF cfg.combo THEN ComboLevel[level].sound ELSE None]
    ELSE IF cs.current_streak > 3
         THEN [state |-> [cs EXCEPT !.current_streak = 0,
                                    !.last_level_reached = "NONE"],
               sound |-> "damage.wav"]
         ELSE [state |-> [cs EXCEPT !.current_streak = 0], sound |-> None]

\* _update_combo: the new ComboState and the sound returned
ZeldaManager__update_combo(cs, success, cfg) ==
    IF success
    THEN LET streak == cs.current_streak + 1
             s1 == [cs EXCEPT !.current_streak = streak,
                              !.highest_streak = IF streak > @ THEN streak ELSE @]
             level == LevelAt(streak, 1)
         IN  IF level = 0
             THEN [state |-> s1, sound |-> None]
             ELSE [state |-> [s1 EXCEPT !.last_level_reached = ComboLevel[level].name,
                                        !.total_combos_achieved = @ + 1],
                   sound |-> IF cfg.combo THEN ComboLevel[level].sound ELSE None]
    ELSE IF cs.current_streak >= 3
         THEN [state |-> [cs EXCEPT !.current_streak = 0,
                                    !.last_level_reached = "NONE"],
               sound |-> "damage.wav"]
         ELSE [state |-> [cs EXCEPT !.current_streak = 0], sound |-> None]

\* The counter an achievement id is measured by (lines 316-324)
ZeldaManager_counter(aid, total_commands, streak, error_free) ==
    IF aid \in {"first_step", "apprentice", "journeyman", "master", "legend"}
    THEN total_commands
    ELSE IF aid \in {"combo_bronze", "combo_silver", "combo_gold", "combo_platinum"}
    THEN streak
    ELSE IF aid \in {"flawless_ten", "error_free"}
    THEN error_free
    ELSE 0

\* The value _check_achievements stores in progress[aid] (line 326)
ZeldaManager_store(old, value) == value

\* Variant: recording an unlock forgets the ids unlocked before
ZeldaManager_unlock_only(unlocked, aid) == {aid}

\* Line 330: achievements_unlocked[aid] = <date>, on the dict's key set
ZeldaManager_unlock(unlocked, aid) == unlocked \cup {aid}

\* _check_achievements: the loop over ACHIEVEMENTS from index i on
RECURSIVE ZeldaManager__check_achievements(_, _, _, _, _, _, _)
ZeldaManager__check_achievements(i, ap, session, total_commands, streak, error_free, cfg) ==
    IF i > Len(ACHIEVEMENTS)
    THEN [ap |-> ap, session |-> session, sounds |-> <<>>]
    ELSE LET aid == ACHIEVEMENTS[i][1]
             req == ACHIEVEMENTS[i][2]
         IN  IF aid \in ap.achievements_unlocked
             THEN ZeldaManager__check_achievements(i + 1, ap, session,
                      total_commands, streak, error_free, cfg)
             ELSE LET value == ZeldaManager_counter(aid, total_commands, streak, error_free)
                      ap1 == [ap EXCEPT !.progress =
                                 DictSet(@, aid, ZeldaManager_store(DictGet(@, aid, 0), value))]
                  IN  IF value >= req
                      THEN [ap |-> [ap1 EXCEPT !.achievements_unlocked =
                                               ZeldaManager_unlock(@, aid)],
                            session |-> [session EXCEPT
                                           !.achievements_unlocked = Append(@, aid)],
                            sounds |-> IF cfg.achievements
                                       THEN <<"achievement.wav">> ELSE <<>>]
                      ELSE ZeldaManager__check_achievements(i + 1, ap1, session,
                               total_commands, streak, error_free, cfg)

\* Variant: the achievement cues are put in front of the streak cue
ZeldaManager_sounds_achievements_first(combo_sound, achievement_sounds) ==
    achievement_sounds \o (IF combo_sound # None THEN <<combo_sound>> ELSE <<>>)

\* Lines 252-258: sounds.append(combo_sound) when there is one, then
\* sounds.extend(achievement_sounds)
ZeldaManager_sounds(combo_sound, achievement_sounds) ==
    (IF combo_sound # None THEN <<combo_sound>> ELSE <<>>) \o achievement_sounds

ZeldaManager_record_command(tool_name, success) ==
    /\ obj = "ZeldaManager"
    /\ call' = [op |-> "record_command", success |-> success]
    /\ IF current_session = NoSession
       THEN /\ ret' = <<>>
            /\ UNCHANGED <<current_session, combo_state, achievement_progress,
                           error_free_count, achievements_file>>
       ELSE LET counted == ZeldaManager_count(current_session, tool_name, success)
                   combo   == ZeldaManager__update_combo(combo_state, success, config)
                   efc     == ZeldaManager_error_free(error_free_count, success)
                   checked == ZeldaManager__check_achievements(1, achievement_progress,
                                  counted,
                                  all_time_stats.total_commands + counted.total_commands,
                                  combo.state.current_streak, efc, config)
               IN  /\ error_free_count' = efc
                   /\ combo_state' = combo.state
                   /\ current_session' = checked.session
                   /\ achievement_progress' = checked.ap
                   /\ achievements_file' = IF checked.sounds # <<>>
                                           THEN ZeldaManager_save_achievements(checked.ap)
                                           ELSE achievements_file
                   /\ ret' = ZeldaManager_sounds(combo.sound, checked.sounds)
    /\ UNCHANGED <<obj, bpVars, thVars, ioVars, config, config_file, all_time_stats, stats_file, session_files,
                   stVars, ctVars, amVars, debVars>>

\* ------------------------------------------------------------------------
\* zelda_core.py: a write raises OSError.  No handler catches it: the
\* statements before the write have run, the ones after it have not.
\* left is what the failed write left of the file: it as it was when open()
\* raised, Truncated when json.dump raised
\* ------------------------------------------------------------------------
ZeldaManager_start_session_write_fails(session_id, emptied) ==
    /\ obj = "ZeldaManager"
    /\ current_session' = SessionStats(session_id, all_time_stats.total_sessions + 1)
    /\ all_time_stats' = [all_time_stats EXCEPT !.total_sessions = @ + 1]
    /\ combo_state' = ComboState
    /\ error_free_count' = 0
    /\ stats_file' = IF emptied THEN Truncated ELSE stats_file
    /\ call' = [op |-> "start_session", raised |-> "OSError"]
    /\ ret' = None
    /\ UNCHANGED <<obj, bpVars, thVars, ioVars, config, config_file, achievement_progress,
                   achievements_file, session_files, stVars, ctVars, amVars, debVars>>

\* end_session, the session write (lines 225-226) raising: the session is
\* folded and stays open, so that the next end_session folds it again
ZeldaManager_end_session_write_fails(emptied) ==
    /\ obj = "ZeldaManager"
    /\ current_session # NoSession
    /\ LET ended == [current_session EXCEPT !.end_time = all_time_stats.total_sessions]
       IN  /\ all_time_stats' = ZeldaManager_fold(all_time_stats, ended)
           /\ session_files' = IF emptied
                               THEN [session_files EXCEPT ![ended.session_id] = Truncated]
                               ELSE session_files
           /\ current_session' = ended
    /\ call' = [op |-> "end_session", again |-> call.op = "end_session",
                raised |-> "OSError"]
    /\ ret' = None
    /\ UNCHANGED <<obj, bpVars, thVars, ioVars, config, config_file, combo_state,
                   achievement_progress, error_free_count, stats_file,
                   achievements_file, stVars, ctVars, amVars, debVars>>

\* record_command, save_achievements (line 341) raising
ZeldaManager_record_command_write_fails(tool_name, success, emptied) ==
    /\ obj = "ZeldaManager"
    /\ current_session # NoSession
    /\ LET counted == ZeldaManager_count(current_session, tool_name, success)
           combo   == ZeldaManager__update_combo(combo_state, success, config)
           efc     == ZeldaManager_error_free(error_free_count, success)
           checked == ZeldaManager__check_achievements(1, achievement_progress,
                          counted,
                          all_time_stats.total_commands + counted.total_commands,
                          combo.state.current_streak, efc, config)
       IN  /\ checked.sounds # <<>>
           /\ error_free_count' = efc
           /\ combo_state' = combo.state
           /\ current_session' = checked.session
           /\ achievement_progress' = checked.ap
    /\ achievements_file' = IF emptied THEN Truncated ELSE achievements_file
    /\ call' = [op |-> "record_command", success |-> success, raised |-> "OSError"]
    /\ ret' = None
    /\ UNCHANGED <<obj, bpVars, thVars, ioVars, config, config_file, all_time_stats, stats_file,
                   session_files, stVars, ctVars, amVars, debVars>>

\* ------------------------------------------------------------------------
\* zelda_core.py: the process is killed inside a write.  save_stats,
\* save_achievements and the session write of end_session open the target
\* itself with 'w', which empties it, and then json.dump into it; the next
\* manager is constructed over the files the killed one left
\* ------------------------------------------------------------------------
\* What a new manager holds after construction over the given files
ZeldaManager_constructed(stats, achievements) ==
    /\ config' = ZeldaManager__load_config(config_file)
    /\ all_time_stats' = ZeldaManager__load_all_time_stats(stats)
    /\ current_session' = NoSession
    /\ combo_state' = ComboState
    /\ achievement_progress' = ZeldaManager__load_achievements(achievements)
    /\ error_free_count' = 0

\* start_session, killed inside save_stats (line 205)
ZeldaManager_start_session_killed ==
    /\ obj = "ZeldaManager"
    /\ stats_file' = Truncated
    /\ ZeldaManager_constructed(stats_file', achievements_file)
    /\ call' = [op |-> "__init__", killed |-> "start_session"]
    /\ ret' = None
    /\ UNCHANGED <<obj, bpVars, thVars, ioVars, config_file, achievements_file, session_files,
                   stVars, ctVars, amVars, debVars>>

\* end_session, killed inside the session write (lines 225-226) or, the
\* session file written, inside save_stats (line 228)
ZeldaManager_end_session_killed(during) ==
    /\ obj = "ZeldaManager"
    /\ current_session # NoSession
    /\ LET ended == [current_session EXCEPT !.end_time = all_time_stats.total_sessions]
       IN  IF during = "session_file"
           THEN /\ session_files' = [session_files EXCEPT ![ended.session_id] = Truncated]
                /\ UNCHANGED stats_file
           ELSE /\ session_files' = [session_files EXCEPT ![ended.session_id] =
                                       json_dump(asdict(ended, SessionStatsFields))]
                /\ stats_file' = Truncated
    /\ ZeldaManager_constructed(stats_file', achievements_file)
    /\ call' = [op |-> "__init__", killed |-> "end_session"]
    /\ ret' = None
    /\ UNCHANGED <<obj, bpVars, thVars, ioVars, config_file, achievements_file,
                   stVars, ctVars, amVars, debVars>>

\* record_command, killed inside save_achievements (line 341), which runs
\* when the call unlocked an achievement with its cue enabled
ZeldaManager_record_command_killed(tool_name, success) ==
    /\ obj = "ZeldaManager"
    /\ current_session # NoSession
    /\ LET counted == ZeldaManager_count(current_session, tool_name, success)
           combo   == ZeldaManager__update_combo(combo_state, success, config)
           efc     == ZeldaManager_error_free(error_free_count, success)
           checked == ZeldaManager__check_achievements(1, achievement_progress,
                          counted,
                          all_time_stats.total_commands + counted.total_commands,
                          combo.state.current_streak, efc, config)
       IN  checked.sounds # <<>>
    /\ achievements_file' = Truncated
    /\ ZeldaManager_constructed(stats_file, achievements_file')
    /\ call' = [op |-> "__init__", killed |-> "record_command"]
    /\ ret' = None
    /\ UNCHANGED <<obj, bpVars, thVars, ioVars, config_file, stats_file, session_files,
                   stVars, ctVars, amVars, debVars>>

\* ------------------------------------------------------------------------
\* ZeldaManager.record_command run by several threads.  The method takes no
\* lock, so the statements of two calls interleave; each `x += 1` is a load
\* followed by a store.  _update_combo and _check_achievements are taken as
\* one step at the end of the call.
\* ------------------------------------------------------------------------
Threads == 1..2

IdleThread == [pc |-> "idle", success |-> FALSE, reg |-> 0, calls |-> 0]

\* Line 233: the call starts; with no session it returns [] at once
ZeldaManager_record_command_enter(t, success) ==
    /\ obj = "ZeldaManager"
    /\ threads[t].pc = "idle"
    /\ IF current_session = NoSession
       THEN /\ threads' = [threads EXCEPT ![t].calls = @ + 1]
            /\ call' = [op |-> "record_command", success |-> success]
            /\ ret' = <<>>
       ELSE /\ threads' = [threads EXCEPT ![t].pc = "load_total",
                                          ![t].success = success]
            /\ UNCHANGED <<call, ret>>
    /\ UNCHANGED <<obj, bpVars, zmVars, stVars, ctVars, amVars, debVars, ioVars>>

\* Lines 239-249, one load or one store at a time
ZeldaManager_record_command_step(t, tool_name) ==
    /\ obj = "ZeldaManager"
    /\ threads[t].pc \in {"load_total", "store_total", "load_outcome",
                          "store_outcome", "load_tools", "store_tools"}
    /\ LET th == threads[t]
           outcome == IF th.success THEN "successful_commands" ELSE "failed_commands"
       IN  CASE th.pc = "load_total" ->
                  /\ threads' = [threads EXCEPT ![t].reg = current_session.total_commands,
                                                ![t].pc = "store_total"]
                  /\ UNCHANGED <<current_session, error_free_count>>
             [] th.pc = "store_total" ->
                  /\ current_session' = [current_session EXCEPT
                                            !.total_commands = th.reg + 1]
                  /\ threads' = [threads EXCEPT ![t].pc = "load_outcome"]
                  /\ UNCHANGED error_free_count
             [] th.pc = "load_outcome" ->
                  /\ threads' = [threads EXCEPT ![t].reg = current_session[outcome],
                                                ![t].pc = "store_outcome"]
                  /\ UNCHANGED <<current_session, error_free_count>>
             [] th.pc = "store_outcome" ->
                  /\ current_session' = [current_session EXCEPT ![outcome] = th.reg + 1]
                  /\ error_free_count' = ZeldaManager_error_free(error_free_count, th.success)
                  /\ threads' = [threads EXCEPT ![t].pc = "load_tools"]
             [] th.pc = "load_tools" ->
                  /\ threads' = [threads EXCEPT
                                    ![t].reg = DictGet(current_session.tools_used,
                                                       tool_name, 0),
                                    ![t].pc = "store_tools"]
                  /\ UNCHANGED <<current_session, error_free_count>>
             [] th.pc = "store_tools" ->
                  /\ current_session' = [current_session EXCEPT
                                            !.tools_used = DictSet(@, tool_name, th.reg + 1)]
                  /\ threads' = [threads EXCEPT ![t].pc = "check"]
                  /\ UNCHANGED error_free_count
    /\ UNCHANGED <<obj, bpVars, call, ret, config, config_file, all_time_stats, combo_state,
                   achievement_progress, stats_file, achievements_file,
                   session_files, stVars, ctVars, amVars, debVars, ioVars>>

\* Lines 251-260: combo, achievements and the return
ZeldaManager_record_command_return(t) ==
    /\ obj = "ZeldaManager"
    /\ threads[t].pc = "check"
    /\ LET success == threads[t].success
           combo   == ZeldaManager__update_combo(combo_state, success, config)
           checked == ZeldaManager__check_achievements(1, achievement_progress,
                          current_session,
                          all_time_stats.total_commands + current_session.total_commands,
                          combo.state.current_streak, error_free_count, config)
       IN  /\ combo_state' = combo.state
           /\ current_session' = checked.session
           /\ achievement_progress' = checked.ap
           /\ achievements_file' = IF checked.sounds # <<>>
                                   THEN ZeldaManager_save_achievements(checked.ap)
                                   ELSE achievements_file
           /\ ret' = ZeldaManager_sounds(combo.sound, checked.sounds)
           /\ call' = [op |-> "record_command", success |-> success]
    /\ threads' = [threads EXCEPT ![t].pc = "idle", ![t].calls = @ + 1]
    /\ UNCHANGED <<obj, bpVars, config, config_file, all_time_stats, error_free_count, stats_file,
                   session_files, stVars, ctVars, amVars, debVars, ioVars>>

\* ------------------------------------------------------------------------
\* StatsTracker
\* ------------------------------------------------------------------------

\* _save_all_time_stats: the content of stats.json afterwards
StatsTracker__save_all_time_stats(ats) == json_dump(asdict(ats, AllTimeStatsFields))

StatsTracker_start_session(session_id) ==
    /\ obj = "StatsTracker"
    /\ st_current_session' = SessionStats(session_id, st_all_time_stats.total_sessions + 1)
    /\ st_all_time_stats' = [st_all_time_stats EXCEPT !.total_sessions = @ + 1]
    /\ st_stats_file' = StatsTracker__save_all_time_stats(st_all_time_stats')
    /\ call' = [op |-> "start_session"]
    /\ ret' = None
    /\ UNCHANGED <<obj, bpVars, thVars, ioVars, st_session_files, zmVars, ctVars, amVars, debVars>>

\* Lines 122-124: merge a tools_used dict into tool_usage, key by key
RECURSIVE MergeUsage(_, _)
MergeUsage(usage, used) ==
    IF used = <<>> THEN usage
    ELSE MergeUsage(DictSet(usage, used[1][1],
                            DictGet(usage, used[1][1], 0) + used[1][2]),
                    Tail(used))

\* max(items, key=count)[0]: the first key, in dict order, with the largest count
FavoriteTool(usage) ==
    LET i == CHOOSE j \in 1..Len(usage) :
                 /\ \A k \in 1..Len(usage) : usage[k][2] <= usage[j][2]
                 /\ \A k \in 1..(j - 1) : usage[k][2] < usage[j][2]
    IN  usage[i][1]

\* Lines 112-136 (the duration, a difference of two stamps of one session,
\* is 0 under the stamp abstraction and total_time_coding is left out)
StatsTracker_fold(ats, session) ==
    LET summed == [ats EXCEPT
                     !.total_commands  = @ + session.total_commands,
                     !.total_successes = @ + session.successful_commands,
                     !.total_failures  = @ + session.failed_commands]
        streaked == IF session.max_streak > summed.longest_streak
                    THEN [summed EXCEPT !.longest_streak = session.max_streak,
                                        !.longest_streak_date = ats.total_sessions]
                    ELSE summed
        merged == [streaked EXCEPT !.tool_usage = MergeUsage(@, session.tools_used)]
    IN  IF merged.tool_usage # <<>>
        THEN [merged EXCEPT !.favorite_tool = FavoriteTool(merged.tool_usage)]
        ELSE merged

StatsTracker_end_session ==
    /\ obj = "StatsTracker"
    /\ call' = [op |-> "end_session", again |-> call.op = "end_session"]
    /\ ret' = None
    /\ IF st_current_session = NoSession
       THEN UNCHANGED stVars
       ELSE LET ended == [st_current_session EXCEPT
                            !.end_time = st_all_time_stats.total_sessions]
            IN  /\ st_all_time_stats' = StatsTracker_fold(st_all_time_stats, ended)
                /\ st_session_files' = [st_session_files EXCEPT ![ended.session_id] =
                                          json_dump(asdict(ended, SessionStatsFields))]
                /\ st_stats_file' = StatsTracker__save_all_time_stats(st_all_time_stats')
                /\ st_current_session' = NoSession
    /\ UNCHANGED <<obj, bpVars, thVars, ioVars, zmVars, ctVars, amVars, debVars>>

\* Variant: the tool's entry is set to one instead of being counted up
StatsTracker_count_tool_seen(session, tool_name, success) ==
    LET streak == session.current_streak + 1
    IN  [session EXCEPT
           !.total_commands      = @ + 1,
           !.successful_commands = IF success THEN @ + 1 ELSE @,
           !.failed_commands     = IF success THEN @ ELSE @ + 1,
           !.current_streak      = IF success THEN streak ELSE 0,
           !.max_streak          = IF success /\ streak > @ THEN streak ELSE @,
           !.tools_used          = DictSet(@, tool_name, 1)]

\* Lines 153-166
StatsTracker_count(session, tool_name, success) ==
    LET streak == session.current_streak + 1
    IN  [session EXCEPT
           !.total_commands      = @ + 1,
           !.successful_commands = IF success THEN @ + 1 ELSE @,
           !.failed_commands     = IF success THEN @ ELSE @ + 1,
           !.current_streak      = IF success THEN streak ELSE 0,
           !.max_streak          = IF success /\ streak > @ THEN streak ELSE @,
           !.tools_used          = DictSet(@, tool_name, DictGet(@, tool_name, 0) + 1)]

\* The milestones table of _check_milestones, in dict order
Milestones ==
    << <<1, "first_command">>, <<10, "novice_coder">>, <<50, "apprentice_coder">>,
       <<100, "journeyman_coder">>, <<500, "expert_coder">>,
       <<1000, "master_coder">>, <<5000, "legendary_coder">> >>

\* _check_milestones: the first milestone reached and not yet recorded, from index i
RECURSIVE StatsTracker__check_milestones(_, _, _)
StatsTracker__check_milestones(i, ats, session) ==
    IF i > Len(Milestones)
    THEN [ats |-> ats, session |-> session, milestone |-> None]
    ELSE LET count == Milestones[i][1]
             milestone_id == Milestones[i][2]
         IN  IF /\ ats.total_commands + session.total_commands >= count
                /\ milestone_id \notin DictKeys(ats.milestones)
             THEN [ats |-> [ats EXCEPT !.milestones =
                               DictSet(@, milestone_id, ats.total_sessions)],
                   session |-> [session EXCEPT
                                  !.achievements_unlocked = Append(@, milestone_id)],
                   milestone |-> milestone_id]
             ELSE StatsTracker__check_milestones(i + 1, ats, session)

StatsTracker_record_command(tool_name, success) ==
    /\ obj = "StatsTracker"
    /\ call' = [op |-> "record_command", success |-> success]
    /\ ret' = None
    /\ IF st_current_session = NoSession
       THEN UNCHANGED stVars
       ELSE LET counted == StatsTracker_count(st_current_session, tool_name, success)
                   checked == StatsTracker__check_milestones(1, st_all_time_stats, counted)
               IN  /\ st_current_session' = checked.session
                   /\ st_all_time_stats' = checked.ats
                   /\ st_stats_file' = IF checked.milestone # None
                                       THEN StatsTracker__save_all_time_stats(checked.ats)
                                       ELSE st_stats_file
                   /\ UNCHANGED st_session_files
    /\ UNCHANGED <<obj, bpVars, thVars, ioVars, zmVars, ctVars, amVars, debVars>>

\* ------------------------------------------------------------------------
\* ComboTracker
\* ------------------------------------------------------------------------

\* _get_combo_level: the highest level whose threshold the streak has reached
RECURSIVE ComboTracker__get_combo_level(_, _)
ComboTracker__get_combo_level(streak, i) ==
    IF i > Len(ComboLevel) THEN "NONE"
    ELSE IF streak >= ComboLevel[i].threshold THEN ComboLevel[i].name
    ELSE ComboTracker__get_combo_level(streak, i + 1)

LevelSound(name) ==
    LET i == CHOOSE j \in 1..Len(ComboLevel) : ComboLevel[j].name = name
    IN  ComboLevel[i].sound

\* Variant: the level is announced whether or not it was reached before
ComboTracker__check_combo_milestone_every_time(st) ==
    LET current_level == ComboTracker__get_combo_level(st.current_streak, 1)
    IN  IF current_level # "NONE"
        THEN [state |-> [st EXCEPT !.last_level_reached = current_level,
                                   !.total_combos_achieved = @ + 1],
              sound |-> LevelSound(current_level)]
        ELSE [state |-> st, sound |-> None]

\* _check_combo_milestone on a state whose streak is already incremented
ComboTracker__check_combo_milestone(st) ==
    LET current_level == ComboTracker__get_combo_level(st.current_streak, 1)
    IN  IF current_level # st.last_level_reached /\ current_level # "NONE"
        THEN [state |-> [st EXCEPT !.last_level_reached = current_level,
                                   !.total_combos_achieved = @ + 1],
              sound |-> LevelSound(current_level)]
        ELSE [state |-> st, sound |-> None]

\* Variant: the highest streak is not raised with the current one
ComboTracker__handle_success_no_highest(st) ==
    LET s1 == [st EXCEPT !.current_streak = @ + 1]
        checked == ComboTracker__check_combo_milestone(s1)
    IN  [state |-> checked.state, result |-> <<checked.sound, None>>]

ComboTracker__handle_success(st) ==
    LET streak == st.current_streak + 1
        s1 == [st EXCEPT !.current_streak = streak,
                         !.highest_streak = IF streak > @ THEN streak ELSE @]
        checked == ComboTracker__check_combo_milestone(s1)
    IN  [state |-> checked.state, result |-> <<checked.sound, None>>]

\* Variant: a failure resets the streak but not the level reached
ComboTracker__handle_failure_keeps_level(st) ==
    [state |-> [st EXCEPT !.current_streak = 0],
     result |-> <<None, IF st.current_streak >= 3 THEN "damage.wav" ELSE None>>]

ComboTracker__handle_failure(st) ==
    [state |-> [st EXCEPT !.current_streak = 0, !.last_level_reached = "NONE"],
     result |-> <<None, IF st.current_streak >= 3 THEN "damage.wav" ELSE None>>]

ComboTracker_record_action(success) ==
    /\ obj = "ComboTracker"
    /\ LET handled == IF success THEN ComboTracker__handle_success(state)
                                 ELSE ComboTracker__handle_failure(state)
       IN  /\ state' = handled.state
           /\ ret' = handled.result
    /\ call' = [op |-> "record_action", success |-> success]
    /\ UNCHANGED <<obj, bpVars, thVars, ioVars, zmVars, stVars, amVars, debVars>>

ComboTracker_reset ==
    /\ obj = "ComboTracker"
    /\ state' = ComboState
    /\ call' = [op |-> "reset"]
    /\ ret' = None
    /\ UNCHANGED <<obj, bpVars, thVars, ioVars, zmVars, stVars, amVars, debVars>>

\* ------------------------------------------------------------------------
\* AchievementManager
\* ------------------------------------------------------------------------

\* _define_achievements, in definition order
Catalog ==
    << [id |-> "first_step",  category |-> "milestone", sound |-> "item_small.wav",      requirement |-> 1],
       [id |-> "apprentice",  category |-> "milestone", sound |-> "heart_get.wav",       requirement |-> 10],
       [id |-> "journeyman",  category |-> "milestone", sound |-> "achievement.wav",     requirement |-> 50],
       [id |-> "master",      category |-> "milestone", sound |-> "shrine_complete.wav", requirement |-> 100],
       [id |-> "legend",      category |-> "milestone", sound |-> "session_start.wav",   requirement |-> 500],
       [id |-> "deity",       category |-> "milestone", sound |-> "session_start.wav",   requirement |-> 1000],
       [id |-> "combo_bronze",   category |-> "combo", sound |-> "item_small.wav",      requirement |-> 3],
       [id |-> "combo_silver",   category |-> "combo", sound |-> "heart_get.wav",       requirement |-> 5],
       [id |-> "combo_gold",     category |-> "combo", sound |-> "achievement.wav",     requirement |-> 10],
       [id |-> "combo_platinum", category |-> "combo", sound |-> "shrine_complete.wav", requirement |-> 20],
       [id |-> "combo_perfect",  category |-> "combo", sound |-> "session_start.wav",   requirement |-> 50],
       [id |-> "tool_user",   category |-> "explorer", sound |-> "search_found.wav",  requirement |-> 5],
       [id |-> "tool_master", category |-> "explorer", sound |-> "puzzle_solved.wav", requirement |-> 10],
       [id |-> "polyglot",    category |-> "explorer", sound |-> "achievement.wav",   requirement |-> 20],
       [id |-> "flawless_ten",    category |-> "perfectionist", sound |-> "heart_get.wav",       requirement |-> 10],
       [id |-> "error_free",      category |-> "perfectionist", sound |-> "achievement.wav",     requirement |-> 25],
       [id |-> "perfect_session", category |-> "perfectionist", sound |-> "shrine_complete.wav", requirement |-> 50],
       [id |-> "quick_start", category |-> "speedrunner", sound |-> "item_small.wav",    requirement |-> 5],
       [id |-> "speed_demon", category |-> "speedrunner", sound |-> "achievement.wav",   requirement |-> 20],
       [id |-> "lightning",   category |-> "speedrunner", sound |-> "session_start.wav", requirement |-> 50],
       [id |-> "sound_hunter",       category |-> "collector", sound |-> "search_complete.wav", requirement |-> 5],
       [id |-> "achievement_hunter", category |-> "collector", sound |-> "puzzle_solved.wav",   requirement |-> 10],
       [id |-> "completionist",      category |-> "collector", sound |-> "achievement.wav",     requirement |-> 20] >>

CatalogIds == {Catalog[i].id : i \in 1..Len(Catalog)}

Achievement(aid) == Catalog[CHOOSE i \in 1..Len(Catalog) : Catalog[i].id = aid]

\* _load_progress without a file: zero progress for every achievement
InitialProgress ==
    [aid \in CatalogIds |->
        [current_progress |-> 0,
         requirement      |-> Achievement(aid).requirement,
         unlocked         |-> FALSE]]

\* _save_progress: {aid: asdict(p)} as the content of achievements.json
AchievementManager__save_progress(prog) ==
    json_dump([i \in 1..Len(Catalog) |-> <<Catalog[i].id, prog[Catalog[i].id]>>])

\* Line 170: the progress value kept for an update
AchievementManager_keep(current_progress, new_value) == Max(current_progress, new_value)

\* Lines 161-176: the loop over updates (a dict, as <<id, value>> pairs)
RECURSIVE AchievementManager_first_pass(_, _, _)
AchievementManager_first_pass(prog, updates, unlocked) ==
    IF updates = <<>>
    THEN [progress |-> prog, unlocked |-> unlocked]
    ELSE LET achievement_id == updates[1][1]
             new_value == updates[1][2]
         IN  IF achievement_id \notin DOMAIN prog
             THEN AchievementManager_first_pass(prog, Tail(updates), unlocked)
             ELSE LET p == prog[achievement_id]
                      kept == AchievementManager_keep(p.current_progress, new_value)
                      newly == ~p.unlocked /\ kept >= p.requirement
                      p1 == [p EXCEPT !.current_progress = kept,
                                      !.unlocked = @ \/ newly]
                  IN  AchievementManager_first_pass(
                          [prog EXCEPT ![achievement_id] = p1], Tail(updates),
                          IF newly THEN Append(unlocked, achievement_id) ELSE unlocked)

\* collector_updates, in dict order
Collectors == <<"sound_hunter", "achievement_hunter", "completionist">>

\* Lines 186-196: the collector loop, all three against the one count
RECURSIVE AchievementManager_collector_pass(_, _, _, _)
AchievementManager_collector_pass(prog, i, count, unlocked) ==
    IF i > Len(Collectors)
    THEN [progress |-> prog, unlocked |-> unlocked]
    ELSE LET aid == Collectors[i]
         IN  IF aid \notin DOMAIN prog \/ prog[aid].unlocked
             THEN AchievementManager_collector_pass(prog, i + 1, count, unlocked)
             ELSE LET newly == count >= prog[aid].requirement
                      p1 == [prog[aid] EXCEPT !.current_progress = count,
                                              !.unlocked = newly]
                  IN  AchievementManager_collector_pass(
                          [prog EXCEPT ![aid] = p1], i + 1, count,
                          IF newly THEN Append(unlocked, aid) ELSE unlocked)

\* Variant: the collectors are measured by the count before the first pass
AchievementManager_update_progress_count_before(prog, updates) ==
    LET first == AchievementManager_first_pass(prog, updates, <<>>)
        total_unlocked == Cardinality({aid \in DOMAIN prog : prog[aid].unlocked})
    IN  AchievementManager_collector_pass(first.progress, 1, total_unlocked,
                                          first.unlocked)

\* update_progress: the new progress table and the ids newly unlocked, in order
AchievementManager_update_progress(prog, updates) ==
    LET first == AchievementManager_first_pass(prog, updates, <<>>)
        total_unlocked == Cardinality({aid \in DOMAIN first.progress :
                                           first.progress[aid].unlocked})
    IN  AchievementManager_collector_pass(first.progress, 1, total_unlocked,
                                          first.unlocked)

\* The updates dict built by check_command_achievements
CommandUpdates(total_commands, streak, error_free, tools_used) ==
    << <<"first_step", total_commands>>, <<"apprentice", total_commands>>,
       <<"journeyman", total_commands>>, <<"master", total_commands>>,
       <<"legend", total_commands>>, <<"deity", total_commands>>,
       <<"combo_bronze", streak>>, <<"combo_silver", streak>>,
       <<"combo_gold", streak>>, <<"combo_platinum", streak>>,
       <<"combo_perfect", streak>>,
       <<"flawless_ten", error_free>>, <<"error_free", error_free>>,
       <<"perfect_session", error_free>>,
       <<"tool_user", tools_used>>, <<"tool_master", tools_used>>,
       <<"polyglot", tools_used>> >>

\* Counter values handed to check_command_achievements
TotalInputs     == {0, 1, 10}
StreakInputs    == {0, 3, 5}
ErrorFreeInputs == {0, 10}
ToolsInputs     == {0, 5}

AchievementManager_check_command_achievements(total_commands, streak, error_free, tools_used) ==
    /\ obj = "AchievementManager"
    /\ LET updated == AchievementManager_update_progress(progress,
                          CommandUpdates(total_commands, streak, error_free, tools_used))
       IN  /\ progress' = updated.progress
           /\ am_achievements_file' = IF updated.unlocked # <<>>
                                      THEN AchievementManager__save_progress(updated.progress)
                                      ELSE am_achievements_file
           /\ ret' = [i \in 1..Len(updated.unlocked) |->
                         <<updated.unlocked[i], Achievement(updated.unlocked[i]).sound>>]
    /\ call' = [op |-> "check_command_achievements"]
    /\ UNCHANGED <<obj, bpVars, thVars, ioVars, zmVars, stVars, ctVars, debVars>>

\* ------------------------------------------------------------------------
\* A persisted record damaged on disk, and the constructors over it
\* ------------------------------------------------------------------------
\* What a damaged file can hold: text cut short, bytes that are not UTF-8,
\* a JSON array, an object with a name that is no field, an object with only
\* one field of the all-time record, an object with only one field of the
\* achievement record
Undecodable == [exists |-> TRUE, kind |-> "undecodable"]
JsonArray   == [exists |-> TRUE, kind |-> "array"]

CorruptContents ==
    {Truncated, Undecodable, JsonArray,
     json_dump(<< <<"bogus", 1>> >>),
     json_dump(<< <<"total_commands", 1>> >>),
     json_dump(<< <<"progress", << <<"first_step", 1>> >> >> >>)}

\* The environment leaves content in one of the files the constructors read
CorruptRecord(which, content) ==
    /\ obj \in {"ZeldaManager", "StatsTracker", "AchievementManager"}
    /\ which \in (CASE obj = "ZeldaManager" -> {"stats", "achievements", "config"}
                    [] obj = "StatsTracker" -> {"stats"}
                    [] obj = "AchievementManager" -> {"achievements"})
    /\ stats_file' = IF obj = "ZeldaManager" /\ which = "stats"
                     THEN content ELSE stats_file
    /\ achievements_file' = IF obj = "ZeldaManager" /\ which = "achievements"
                            THEN content ELSE achievements_file
    /\ config_file' = IF obj = "ZeldaManager" /\ which = "config"
                      THEN content ELSE config_file
    /\ st_stats_file' = IF obj = "StatsTracker" THEN content ELSE st_stats_file
    /\ am_achievements_file' = IF obj = "AchievementManager"
                               THEN content ELSE am_achievements_file
    /\ UNCHANGED <<obj, bpVars, call, ret, thVars, ioVars, config, all_time_stats,
                   current_session, combo_state, achievement_progress,
                   error_free_count, session_files, st_all_time_stats,
                   st_current_session, st_session_files, ctVars, progress, debVars>>

\* StatsTracker._load_all_time_stats: only JSONDecodeError and TypeError are
\* caught; reading bytes that are not UTF-8 raises UnicodeDecodeError
StatsTracker__load_all_time_stats(file) ==
    IF ~file.exists THEN [raised |-> None, value |-> AllTimeStats]
    ELSE IF file.kind = "undecodable"
         THEN [raised |-> "UnicodeDecodeError", value |-> AllTimeStats]
    ELSE IF file.kind # "object" THEN [raised |-> None, value |-> AllTimeStats]
    ELSE IF Unexpected(file.members, AllTimeStats)
         THEN [raised |-> None, value |-> AllTimeStats]
    ELSE [raised |-> None, value |-> FromKwargs(file.members, AllTimeStats)]

\* StatsTracker.__init__; when the loader raises no tracker comes to exist
StatsTracker___init__ ==
    /\ obj = "StatsTracker"
    /\ LET loaded == StatsTracker__load_all_time_stats(st_stats_file)
       IN  IF loaded.raised = None
           THEN /\ st_current_session' = NoSession
                /\ st_all_time_stats' = loaded.value
                /\ call' = [op |-> "__init__"]
           ELSE /\ UNCHANGED <<st_current_session, st_all_time_stats>>
                /\ call' = [op |-> "__init__", raised |-> loaded.raised]
    /\ ret' = None
    /\ UNCHANGED <<obj, bpVars, thVars, ioVars, st_stats_file, st_session_files,
                   zmVars, ctVars, amVars, debVars>>

\* AchievementProgress(**pdata) of achievement_system.py: current_progress and
\* requirement have no default
ProgressEntry(pdata) ==
    [current_progress |-> pdata.current_progress,
     requirement      |-> pdata.requirement,
     unlocked         |-> IF "unlocked" \in DOMAIN pdata THEN pdata.unlocked ELSE FALSE]

\* AchievementManager._load_progress: data.items() raises AttributeError on a
\* JSON array, which like UnicodeDecodeError is not caught.  Of the contents
\* considered, the values under the achievement ids are what _save_progress
\* wrote, and AchievementProgress(**pdata) raises TypeError, which is caught,
\* on the value under any other name
AchievementManager__load_progress(file) ==
    IF ~file.exists THEN [raised |-> None, value |-> InitialProgress]
    ELSE IF file.kind = "undecodable"
         THEN [raised |-> "UnicodeDecodeError", value |-> InitialProgress]
    ELSE IF file.kind = "array"
         THEN [raised |-> "AttributeError", value |-> InitialProgress]
    ELSE IF file.kind # "object" THEN [raised |-> None, value |-> InitialProgress]
    ELSE IF \A i \in 1..Len(file.members) : file.members[i][1] \in CatalogIds
         THEN [raised |-> None,
               value |-> [aid \in {file.members[i][1] : i \in 1..Len(file.members)} |->
                             ProgressEntry(file.members[
                                 CHOOSE i \in 1..Len(file.members) :
                                     file.members[i][1] = aid][2])]]
    ELSE [raised |-> None, value |-> InitialProgress]

\* AchievementManager.__init__
AchievementManager___init__ ==
    /\ obj = "AchievementManager"
    /\ LET loaded == AchievementManager__load_progress(am_achievements_file)
       IN  IF loaded.raised = None
           THEN /\ progress' = loaded.value
                /\ call' = [op |-> "__init__"]
           ELSE /\ UNCHANGED progress
                /\ call' = [op |-> "__init__", raised |-> loaded.raised]
    /\ ret' = None
    /\ UNCHANGED <<obj, bpVars, thVars, ioVars, am_achievements_file,
                   zmVars, stVars, ctVars, debVars>>

\* ------------------------------------------------------------------------
\* OptimizedFileIO
\* ------------------------------------------------------------------------
Writers == 1..2

\* The dicts handed to write_json_async, as member lists
IoData == { << <<"k", 1>> >>, << <<"k", 2>> >> }

\* handle: the file the thread's open file object writes to: the one named
\* file_path.tmp ("tmp"), the one named file_path ("file", after another
\* thread renamed the temporary file), or one no name refers to ("orphan")
\* ok: the thread's write() ran to its end, the cache update included
IdleWriter == [pc |-> "idle", data |-> <<>>, handle |-> "none", n |-> 0, ok |-> FALSE]

\* write_json_async: Thread(target=write, daemon=True).start()
OptimizedFileIO_write_json_async(w, data) ==
    /\ obj = "OptimizedFileIO"
    /\ io_writers[w].pc = "idle"
    /\ io_writers' = [io_writers EXCEPT ![w].pc = "open", ![w].data = data,
                                        ![w].n = @ + 1, ![w].ok = FALSE]
    /\ io_last' = w
    /\ call' = [op |-> "write_json_async", data |-> data]
    /\ ret' = None
    /\ UNCHANGED <<obj, bpVars, zmVars, stVars, ctVars, amVars, debVars, thVars,
                   io_file, io_tmp, file_cache, cache_age>>

\* temp_path.replace(file_path): the target afterwards
OptimizedFileIO_replace(tmp, file) == tmp

\* write(), one statement at a time: open the temporary file, dump, rename it
\* over the target, update the cache; any exception ends the thread
OptimizedFileIO_write(w) ==
    /\ obj = "OptimizedFileIO"
    /\ io_writers[w].pc \in {"open", "dump", "replace", "cache"}
    /\ LET me == io_writers[w]
       IN  CASE me.pc = "open" ->
                  /\ io_tmp' = Truncated
                  /\ io_writers' = [io_writers EXCEPT ![w].pc = "dump",
                                                      ![w].handle = "tmp"]
                  /\ UNCHANGED <<io_file, file_cache, cache_age>>
             [] me.pc = "dump" ->
                  /\ io_tmp' = IF me.handle = "tmp" THEN json_dump(me.data) ELSE io_tmp
                  /\ io_file' = IF me.handle = "file" THEN json_dump(me.data) ELSE io_file
                  /\ io_writers' = [io_writers EXCEPT ![w].pc = "replace",
                                                      ![w].handle = "none"]
                  /\ UNCHANGED <<file_cache, cache_age>>
             [] me.pc = "replace" ->
                  IF io_tmp.exists
                  THEN /\ io_file' = OptimizedFileIO_replace(io_tmp, io_file)
                       /\ io_tmp' = Absent
                       /\ io_writers' =
                              [v \in Writers |->
                                  IF v = w THEN [io_writers[v] EXCEPT !.pc = "cache"]
                                  ELSE [io_writers[v] EXCEPT !.handle =
                                           IF @ = "tmp" THEN "file"
                                           ELSE IF @ = "file" THEN "orphan" ELSE @]]
                       /\ UNCHANGED <<file_cache, cache_age>>
                  ELSE /\ io_writers' = [io_writers EXCEPT ![w].pc = "idle"]
                       /\ UNCHANGED <<io_file, io_tmp, file_cache, cache_age>>
             [] me.pc = "cache" ->
                  /\ file_cache' = [exists |-> TRUE, data |-> me.data]
                  /\ cache_age' = 0
                  /\ io_writers' = [io_writers EXCEPT ![w].pc = "idle", ![w].ok = TRUE]
                  /\ UNCHANGED <<io_file, io_tmp>>
    /\ UNCHANGED <<obj, bpVars, call, ret, zmVars, stVars, ctVars, amVars, debVars, thVars,
                   io_last>>

\* write() with open or json.dump raising OSError: except Exception: pass
\* ends the thread, the temporary file stays as it is
OptimizedFileIO_write_fails(w) ==
    /\ obj = "OptimizedFileIO"
    /\ io_writers[w].pc \in {"open", "dump"}
    /\ io_writers' = [io_writers EXCEPT ![w].pc = "idle", ![w].handle = "none"]
    /\ UNCHANGED <<obj, bpVars, call, ret, zmVars, stVars, ctVars, amVars, debVars, thVars,
                   io_file, io_tmp, file_cache, cache_age, io_last>>

\* The process is killed: its daemon threads and its cache are gone, the
\* files stay as they are
OptimizedFileIO_killed ==
    /\ obj = "OptimizedFileIO"
    /\ \E w \in Writers : io_writers[w].pc # "idle"
    /\ io_writers' = [w \in Writers |-> [IdleWriter EXCEPT !.n = io_writers[w].n]]
    /\ file_cache' = Absent
    /\ cache_age' = 0
    /\ call' = [op |-> "__init__"]
    /\ ret' = None
    /\ UNCHANGED <<obj, bpVars, zmVars, stVars, ctVars, amVars, debVars, thVars,
                   io_file, io_tmp, io_last>>

\* The read cache.  Time is counted in ticks of 30 seconds
cache_ttl == 2          \* 60 s

\* read_json_cached, under cache_lock: the cached copy when the path is in
\* file_cache and its entry is younger than cache_ttl (lines 129-130), else
\* the file's content, which is then cached; {} when the file cannot be read
\* or parsed
OptimizedFileIO_read_json_cached ==
    /\ obj = "OptimizedFileIO"
    /\ IF file_cache.exists /\ cache_age < cache_ttl
       THEN /\ ret' = file_cache.data
            /\ UNCHANGED <<file_cache, cache_age>>
       ELSE IF io_file.exists /\ io_file.kind = "object"
       THEN /\ file_cache' = [exists |-> TRUE, data |-> io_file.members]
            /\ cache_age' = 0
            /\ ret' = io_file.members
       ELSE /\ ret' = <<>>
            /\ UNCHANGED <<file_cache, cache_age>>
    /\ call' = [op |-> "read_json_cached",
                cached |-> file_cache.exists /\ cache_age < cache_ttl,
                odd |-> IF call.op = "read_json_cached" THEN ~call.odd ELSE TRUE]
    /\ UNCHANGED <<obj, bpVars, zmVars, stVars, ctVars, amVars, debVars, thVars,
                   io_file, io_tmp, io_writers, io_last>>

\* A tick of time.time() passes
OptimizedFileIO_tick ==
    /\ obj = "OptimizedFileIO"
    /\ cache_age' = Min(cache_age + 1, cache_ttl)
    /\ UNCHANGED <<obj, bpVars, call, ret, zmVars, stVars, ctVars, amVars, debVars, thVars,
                   io_file, io_tmp, io_writers, file_cache, io_last>>

\* The file is rewritten by something other than this OptimizedFileIO
OptimizedFileIO_modified_outside(data) ==
    /\ obj = "OptimizedFileIO"
    /\ io_file' = json_dump(data)
    /\ io_last' = 0 - 1
    /\ UNCHANGED <<obj, bpVars, call, ret, zmVars, stVars, ctVars, amVars, debVars, thVars,
                   io_tmp, io_writers, file_cache, cache_age>>

\* ------------------------------------------------------------------------
\* CommandDebouncer
\* ------------------------------------------------------------------------
threshold_ms == 100
maxlen == 10

Commands == {"Bash", "Edit"}
Elapsed  == {0, 50, 100, 150}   \* milliseconds since the previous call

\* deque.append with maxlen: the oldest entry falls out of a full deque
DequeAppend(d, e) == IF Len(d) >= maxlen THEN Append(Tail(d), e) ELSE Append(d, e)

\* Variant: any command accepted within the threshold counts as recent
RecentlyExecuted_any_command(history, command, current_time) ==
    \E i \in 1..Len(history) :
        current_time - history[i][1] < threshold_ms

\* The scan of lines 77-79: a recent entry of the same command
RecentlyExecuted(history, command, current_time) ==
    \E i \in 1..Len(history) :
        /\ history[i][2] = command
        /\ current_time - history[i][1] < threshold_ms

CommandDebouncer_should_process(command, dt) ==
    /\ obj = "CommandDebouncer"
    /\ now' = now + dt
    /\ IF RecentlyExecuted(last_commands, command, now')
       THEN /\ ret' = FALSE
            /\ UNCHANGED <<last_commands, accepted>>
       ELSE /\ ret' = TRUE
            /\ last_commands' = DequeAppend(last_commands, <<now', command>>)
            /\ accepted' = accepted \cup {<<now', command>>}
    /\ call' = [op |-> "should_process", command |-> command, time |-> now',
                nth |-> IF call.op = "should_process" THEN Min(call.nth + 1, 3) ELSE 1]
    /\ UNCHANGED <<obj, bpVars, thVars, ioVars, zmVars, stVars, ctVars, amVars>>

\* ------------------------------------------------------------------------
\* BatchProcessor, as initialize_optimizations builds it.  Time is counted in
\* ticks of a quarter second.  add_operation and the check of the background
\* thread both run under self.lock, and _flush leaves its ThreadPoolExecutor
\* block only when every operation submitted has run, so each is one step
\* ------------------------------------------------------------------------
batch_size     == 5
flush_interval == 2     \* 0.5 s

\* _flush: nothing when nothing is pending; else the list is copied and
\* cleared, last_flush is set and every copied operation is run once
BatchProcessor__flush(pending, done) ==
    [pending_operations |-> <<>>,
     executed |-> [n \in DOMAIN done |->
                     IF \E i \in 1..Len(pending) : pending[i] = n
                     THEN done[n] + 1 ELSE done[n]],
     flushed |-> pending # <<>>]

BatchProcessor_add_operation ==
    /\ obj = "BatchProcessor"
    /\ alive
    /\ added' = added + 1
    /\ LET pending == Append(pending_operations, added')
       IN  IF Len(pending) >= batch_size
           THEN LET flush == BatchProcessor__flush(pending, executed)
                IN  /\ pending_operations' = flush.pending_operations
                    /\ executed' = flush.executed
                    /\ since_flush' = IF flush.flushed THEN 0 ELSE since_flush
           ELSE /\ pending_operations' = pending
                /\ UNCHANGED <<executed, since_flush>>
    /\ call' = [op |-> "add_operation"]
    /\ ret' = None
    /\ UNCHANGED <<obj, sleeping, alive, lock, submitted, running, zmVars, stVars, ctVars, amVars, debVars,
                   thVars, ioVars>>

\* One turn of the loop of _background_flush, taken when time.sleep returns
BatchProcessor__background_flush ==
    /\ obj = "BatchProcessor"
    /\ alive
    /\ sleeping = 0
    /\ IF pending_operations # <<>> /\ since_flush > flush_interval
       THEN LET flush == BatchProcessor__flush(pending_operations, executed)
            IN  /\ pending_operations' = flush.pending_operations
                /\ executed' = flush.executed
                /\ since_flush' = IF flush.flushed THEN 0 ELSE since_flush
       ELSE UNCHANGED <<pending_operations, executed, since_flush>>
    /\ sleeping' = flush_interval
    /\ UNCHANGED <<obj, call, ret, added, alive, lock, submitted, running, zmVars, stVars, ctVars, amVars,
                   debVars, thVars, ioVars>>

\* A tick of time.time() passes; time.sleep returns no earlier than asked
BatchProcessor_tick ==
    /\ obj = "BatchProcessor"
    /\ alive
    /\ since_flush' = Min(since_flush + 1, flush_interval + 1)
    /\ sleeping' = Max(sleeping - 1, 0)
    /\ UNCHANGED <<obj, call, ret, pending_operations, added, executed, alive,
                   lock, submitted, running, zmVars, stVars, ctVars, amVars, debVars, thVars, ioVars>>

\* The process ends; the flusher is a daemon thread and ends with it
BatchProcessor_exit ==
    /\ obj = "BatchProcessor"
    /\ alive
    /\ alive' = FALSE
    /\ UNCHANGED <<obj, call, ret, pending_operations, since_flush, sleeping,
                   added, executed, lock, submitted, running, zmVars, stVars, ctVars, amVars, debVars,
                   thVars, ioVars>>

\* ------------------------------------------------------------------------
\* BatchProcessor, thread by thread: self.lock, the executor of _flush and
\* its workers, for operations that themselves call add_operation on the
\* same BatchProcessor.  A critical section that does not flush is one step;
\* one that flushes keeps the lock until the executor block is left
\* ------------------------------------------------------------------------
\* The operations that call self.add_operation(..) once and then return;
\* every other operation returns at once
ReentrantOps == {2}

\* add_operation on thread t, "main" for the caller of the BatchProcessor
\* and "op" for a worker running an operation of ReentrantOps: "with
\* self.lock", the append, and _flush up to the submits when the batch is full
BatchProcessor_add_operation_on(t) ==
    /\ obj = "BatchProcessor"
    /\ alive
    /\ lock = "free"
    /\ t = "op" => running # {}
    /\ added' = added + 1
    /\ LET pending == Append(pending_operations, added')
       IN  IF Len(pending) >= batch_size
           THEN /\ pending_operations' = <<>>
                /\ submitted' = {pending[i] : i \in 1..Len(pending)}
                /\ since_flush' = 0
                /\ lock' = t
                /\ UNCHANGED <<running, executed>>
           ELSE /\ pending_operations' = pending
                /\ lock' = "free"
                /\ running' = IF t = "op" THEN {} ELSE running
                /\ executed' = IF t = "op"
                               THEN [n \in DOMAIN executed |->
                                        IF n \in running THEN executed[n] + 1
                                                         ELSE executed[n]]
                               ELSE executed
                /\ UNCHANGED <<submitted, since_flush>>
    /\ UNCHANGED <<obj, call, ret, sleeping, alive, zmVars, stVars, ctVars, amVars,
                   debVars, thVars, ioVars>>

\* One turn of the loop of _background_flush: "with self.lock", the test,
\* and _flush up to the submits
BatchProcessor__background_flush_on ==
    /\ obj = "BatchProcessor"
    /\ alive
    /\ sleeping = 0
    /\ lock = "free"
    /\ IF pending_operations # <<>> /\ since_flush > flush_interval
       THEN /\ pending_operations' = <<>>
            /\ submitted' = {pending_operations[i] : i \in 1..Len(pending_operations)}
            /\ since_flush' = 0
            /\ lock' = "flusher"
            /\ UNCHANGED sleeping
       ELSE /\ sleeping' = flush_interval
            /\ UNCHANGED <<pending_operations, submitted, since_flush, lock>>
    /\ UNCHANGED <<obj, call, ret, added, executed, alive, running, zmVars, stVars,
                   ctVars, amVars, debVars, thVars, ioVars>>

\* A worker of the executor picks up operation n: a plain operation runs
\* and returns, one of ReentrantOps arrives at its call of add_operation
BatchProcessor_worker(n) ==
    /\ obj = "BatchProcessor"
    /\ alive
    /\ n \in submitted
    /\ Cardinality(running) < 4     \* max_workers
    /\ submitted' = submitted \ {n}
    /\ IF n \in ReentrantOps
       THEN /\ running' = running \cup {n}
            /\ UNCHANGED executed
       ELSE /\ executed' = [executed EXCEPT ![n] = @ + 1]
            /\ UNCHANGED running
    /\ UNCHANGED <<obj, call, ret, pending_operations, since_flush, sleeping, added,
                   alive, lock, zmVars, stVars, ctVars, amVars, debVars, thVars,
                   ioVars>>

\* The end of "with ThreadPoolExecutor(..)": shutdown(wait=True) returns when
\* every operation submitted has returned; _flush returns and the lock is
\* released.  An operation that flushed from inside add_operation returns
BatchProcessor_flushed ==
    /\ obj = "BatchProcessor"
    /\ alive
    /\ lock # "free"
    /\ submitted = {}
    /\ lock # "op" => running = {}
    /\ lock' = "free"
    /\ sleeping' = IF lock = "flusher" THEN flush_interval ELSE sleeping
    /\ running' = {}
    /\ executed' = [n \in DOMAIN executed |->
                       IF n \in running THEN executed[n] + 1 ELSE executed[n]]
    /\ UNCHANGED <<obj, call, ret, pending_operations, since_flush, added, alive,
                   submitted, zmVars, stVars, ctVars, amVars, debVars, thVars,
                   ioVars>>

\* ------------------------------------------------------------------------
\* hooks/zelda_hook.py: the handlers of the hook events, over the module's
\* manager and the debouncer of initialize_optimizations
\* ------------------------------------------------------------------------
TOOL_SOUND_MAP ==
    [Bash |-> [success |-> "success.wav", error |-> "damage.wav"],
     Edit |-> [success |-> "item_small.wav", error |-> "error.wav"]]

get_tool_sound(tool_name, is_success) ==
    IF is_success THEN TOOL_SOUND_MAP[tool_name].success ELSE TOOL_SOUND_MAP[tool_name].error

handle_session_start(session_id) ==
    /\ obj = "Hook"
    /\ current_session' = SessionStats(session_id, all_time_stats.total_sessions + 1)
    /\ all_time_stats' = [all_time_stats EXCEPT !.total_sessions = @ + 1]
    /\ combo_state' = ComboState
    /\ error_free_count' = 0
    /\ stats_file' = ZeldaManager_save_stats(all_time_stats')
    /\ call' = [op |-> "handle_session_start", played |-> <<"session_start.wav">>]
    /\ ret' = None
    /\ UNCHANGED <<obj, bpVars, thVars, ioVars, config, config_file, achievement_progress, achievements_file,
                   session_files, stVars, ctVars, amVars, debVars>>

handle_session_end ==
    /\ obj = "Hook"
    /\ call' = [op |-> "handle_session_end", played |-> <<"session_night.wav">>]
    /\ ret' = None
    /\ IF current_session = NoSession
       THEN UNCHANGED <<all_time_stats, current_session, stats_file, session_files>>
       ELSE LET ended == [current_session EXCEPT !.end_time = all_time_stats.total_sessions]
            IN  /\ all_time_stats' = ZeldaManager_fold(all_time_stats, ended)
                /\ session_files' = [session_files EXCEPT ![ended.session_id] =
                                       json_dump(asdict(ended, SessionStatsFields))]
                /\ stats_file' = ZeldaManager_save_stats(all_time_stats')
                /\ current_session' = ZeldaManager_cleared(ended)
    /\ UNCHANGED <<obj, bpVars, thVars, ioVars, config, config_file, combo_state, achievement_progress,
                   error_free_count, achievements_file,
                   stVars, ctVars, amVars, debVars>>

\* Lines 202-205: the event is dropped when should_process answers False
handle_tool_execution_skip(history, tool_name, current_time) ==
    RecentlyExecuted(history, tool_name, current_time)

\* handle_tool_execution; dt is the time since the previous event and
\* is_success what determine_tool_success makes of the response
handle_tool_execution(tool_name, is_success, dt) ==
    /\ obj = "Hook"
    /\ now' = now + dt
    /\ ret' = None
    /\ IF handle_tool_execution_skip(last_commands, tool_name, now')
       THEN /\ call' = [op |-> "handle_tool_execution", processed |-> FALSE,
                        played |-> <<>>]
            /\ UNCHANGED <<last_commands, accepted, current_session, combo_state,
                           achievement_progress, error_free_count, achievements_file>>
       ELSE /\ last_commands' = DequeAppend(last_commands, <<now', tool_name>>)
            /\ accepted' = accepted \cup {<<now', tool_name>>}
            /\ IF current_session = NoSession
               THEN /\ call' = [op |-> "handle_tool_execution", processed |-> TRUE,
                                played |-> <<get_tool_sound(tool_name, is_success)>>]
                    /\ UNCHANGED <<current_session, combo_state, achievement_progress,
                                   error_free_count, achievements_file>>
               ELSE LET counted == ZeldaManager_count(current_session, tool_name, is_success)
                        combo   == ZeldaManager__update_combo(combo_state, is_success, config)
                        efc     == ZeldaManager_error_free(error_free_count, is_success)
                        checked == ZeldaManager__check_achievements(1, achievement_progress,
                                       counted,
                                       all_time_stats.total_commands + counted.total_commands,
                                       combo.state.current_streak, efc, config)
                    IN  /\ error_free_count' = efc
                        /\ combo_state' = combo.state
                        /\ current_session' = checked.session
                        /\ achievement_progress' = checked.ap
                        /\ achievements_file' = IF checked.sounds # <<>>
                                                THEN ZeldaManager_save_achievements(checked.ap)
                                                ELSE achievements_file
                        /\ call' = [op |-> "handle_tool_execution", processed |-> TRUE,
                                    played |-> <<get_tool_sound(tool_name, is_success)>>
                                       \o ZeldaManager_sounds(combo.sound, checked.sounds)]
    /\ UNCHANGED <<obj, bpVars, thVars, ioVars, config, config_file, all_time_stats, stats_file, session_files,
                   stVars, ctVars, amVars>>

\* ------------------------------------------------------------------------
\* Specification
\* ------------------------------------------------------------------------
Classes == {"ZeldaManager", "StatsTracker", "ComboTracker",
            "AchievementManager", "CommandDebouncer", "OptimizedFileIO",
            "Hook", "BatchProcessor", "Combos"}

\* The state after construction: no persisted statistics or achievements;
\* config.json holds whatever earlier update_config calls left in it (only
\* the manager, and the hook through it, read it)
Init ==
    /\ obj \in Classes
    /\ call = [op |-> "__init__"]
    /\ ret = None
    /\ config \in (IF obj \in {"ZeldaManager", "Hook", "Combos"} THEN SoundsConfig
                                                      ELSE {DEFAULT_CONFIG})
    /\ config_file = ZeldaManager_save_config(config)
    /\ all_time_stats = AllTimeStats
    /\ current_session = NoSession
    /\ combo_state = ComboState
    /\ achievement_progress = AchievementProgress
    /\ error_free_count = 0
    /\ stats_file = Absent
    /\ achievements_file = Absent
    /\ session_files = [id \in {SessionIds[i] : i \in 1..Len(SessionIds)} |-> Absent]
    /\ st_all_time_stats = AllTimeStats
    /\ st_current_session = NoSession
    /\ st_stats_file = Absent
    /\ st_session_files = [id \in {SessionIds[i] : i \in 1..Len(SessionIds)} |-> Absent]
    /\ state = ComboState
    /\ progress = InitialProgress
    /\ am_achievements_file = Absent
    /\ last_commands = <<>>
    /\ accepted = {}
    /\ now = 0
    /\ threads = [t \in Threads |-> IdleThread]
    /\ io_file = Absent
    /\ io_tmp = Absent
    /\ io_writers = [w \in Writers |-> IdleWriter]
    /\ file_cache = Absent
    /\ cache_age = 0
    /\ io_last = 0
    /\ pending_operations = <<>>
    /\ since_flush = 0
    /\ sleeping = flush_interval
    /\ added = 0
    /\ executed = [n \in 1..MaxOperations |-> 0]
    /\ alive = TRUE
    /\ lock = "free"
    /\ submitted = {}
    /\ running = {}

\* Commands and failures recorded so far, all-time and current session together
Recorded(ats, session) ==
    ats.total_commands + (IF session = NoSession THEN 0 ELSE session.total_commands)

Failed(ats, session) ==
    ats.total_failures + (IF session = NoSession THEN 0 ELSE session.failed_commands)

ZeldaManagerNext ==
    \/ /\ all_time_stats.total_sessions < Min(MaxSessions, Len(SessionIds))
       /\ ZeldaManager_start_session(SessionIds[all_time_stats.total_sessions + 1])
    \/ ZeldaManager_end_session
    \/ \E t \in Tools, s \in BOOLEAN :
           /\ Recorded(all_time_stats, current_session) < MaxCommands
           /\ ZeldaManager_record_command(t, s)
    \/ ZeldaManager___init__

StatsTrackerNext ==
    \/ /\ st_all_time_stats.total_sessions < Min(MaxSessions, Len(SessionIds))
       /\ StatsTracker_start_session(SessionIds[st_all_time_stats.total_sessions + 1])
    \/ StatsTracker_end_session
    \/ \E t \in Tools, s \in BOOLEAN :
           /\ Recorded(st_all_time_stats, st_current_session) < MaxCommands
           /\ StatsTracker_record_command(t, s)

ComboTrackerNext ==
    \/ \E s \in BOOLEAN :
           /\ s => /\ state.current_streak < StreakCommands
                   /\ state.total_combos_achieved < MaxCombos
           /\ ComboTracker_record_action(s)
    \/ ComboTracker_reset

AchievementManagerNext ==
    \E tc \in TotalInputs, sk \in StreakInputs, ef \in ErrorFreeInputs, tu \in ToolsInputs :
        AchievementManager_check_command_achievements(tc, sk, ef, tu)

CommandDebouncerNext ==
    \E c \in Commands, dt \in Elapsed :
        /\ now + dt <= MaxClock
        /\ CommandDebouncer_should_process(c, dt)

OptimizedFileIONext ==
    \/ \E w \in Writers, data \in IoData :
           /\ io_writers[w].n < MaxWrites
           /\ OptimizedFileIO_write_json_async(w, data)
    \/ \E w \in Writers : OptimizedFileIO_write(w)
    \/ OptimizedFileIO_killed

Next ==
    \/ OptimizedFileIONext
    \/ ZeldaManagerNext
    \/ StatsTrackerNext
    \/ ComboTrackerNext
    \/ AchievementManagerNext
    \/ CommandDebouncerNext

Spec == Init /\ [][Next]_vars

\* ------------------------------------------------------------------------
\* The long-streak exploration: one session "s1", one tool "Bash", streaks
\* up to the MASTER threshold, for the classes that track or consume a streak
\* ------------------------------------------------------------------------
InitStreak ==
    Init /\ obj \in {"ZeldaManager", "StatsTracker", "ComboTracker", "AchievementManager"}

ZeldaManagerStreak ==
    \/ /\ all_time_stats.total_sessions < 1
       /\ ZeldaManager_start_session("s1")
    \/ ZeldaManager_end_session
    \/ \E s \in BOOLEAN :
           /\ Recorded(all_time_stats, current_session) < StreakCommands
           /\ ~s => Failed(all_time_stats, current_session) < StreakFailures
           /\ ZeldaManager_record_command("Bash", s)

StatsTrackerStreak ==
    \/ /\ st_all_time_stats.total_sessions < 1
       /\ StatsTracker_start_session("s1")
    \/ StatsTracker_end_session
    \/ \E s \in BOOLEAN :
           /\ Recorded(st_all_time_stats, st_current_session) < StreakCommands
           /\ ~s => Failed(st_all_time_stats, st_current_session) < StreakFailures
           /\ StatsTracker_record_command("Bash", s)

NextStreak ==
    \/ ZeldaManagerStreak
    \/ StatsTrackerStreak
    \/ ComboTrackerNext
    \/ AchievementManagerNext

SpecStreak == InitStreak /\ [][NextStreak]_vars

\* ------------------------------------------------------------------------
\* Threads: one ZeldaManager, one session, record_command("Bash", ..) called
\* from every thread
\* ------------------------------------------------------------------------
InitThreads == Init /\ obj = "ZeldaManager"

NextThreads ==
    \/ /\ all_time_stats.total_sessions < 1
       /\ \A t \in Threads : threads[t].pc = "idle" /\ threads[t].calls = 0
       /\ ZeldaManager_start_session("s1")
    \/ \E t \in Threads, s \in BOOLEAN :
           /\ threads[t].calls < MaxThreadCalls
           /\ ZeldaManager_record_command_enter(t, s)
    \/ \E t \in Threads : ZeldaManager_record_command_step(t, "Bash")
    \/ \E t \in Threads : ZeldaManager_record_command_return(t)

SpecThreads == InitThreads /\ [][NextThreads]_vars

\* ------------------------------------------------------------------------
\* The hook: one session "s1", tool events 0 or 100 ms apart
\* ------------------------------------------------------------------------
InitHook == Init /\ obj = "Hook"

NextHook ==
    \/ /\ all_time_stats.total_sessions = 0
       /\ handle_session_start("s1")
    \/ handle_session_end
    \/ \E t \in Tools, s \in BOOLEAN, dt \in {0, threshold_ms} :
           /\ Recorded(all_time_stats, current_session) < MaxCommands
           /\ now + dt <= HookClock
           /\ handle_tool_execution(t, s, dt)

SpecHook == InitHook /\ [][NextHook]_vars

\* ------------------------------------------------------------------------
\* One BatchProcessor in a running process: the clock goes on ticking and
\* the background thread, once its sleep is over, gets to run
\* ------------------------------------------------------------------------
InitBatch == Init /\ obj = "BatchProcessor"

NextBatch ==
    \/ /\ added < MaxOperations
       /\ BatchProcessor_add_operation
    \/ BatchProcessor__background_flush
    \/ BatchProcessor_tick
    \/ BatchProcessor_exit

SpecBatch ==
    /\ InitBatch
    /\ [][NextBatch]_vars
    /\ WF_bpVars(BatchProcessor_tick)
    /\ WF_bpVars(BatchProcessor__background_flush)

\* ------------------------------------------------------------------------
\* One OptimizedFileIO read and written over time: the writer threads, reads
\* through the cache, the clock, and the file rewritten from outside
\* ------------------------------------------------------------------------
InitCache == Init /\ obj = "OptimizedFileIO"

NextCache ==
    \/ \E w \in Writers, data \in IoData :
           /\ io_writers[w].n < MaxWrites
           /\ OptimizedFileIO_write_json_async(w, data)
    \/ \E w \in Writers : OptimizedFileIO_write(w)
    \/ OptimizedFileIO_read_json_cached
    \/ OptimizedFileIO_tick
    \/ \E data \in { << <<"k", 3>> >> } :
           /\ io_last # 0 - 1
           /\ OptimizedFileIO_modified_outside(data)

SpecCache == InitCache /\ [][NextCache]_vars

\* ------------------------------------------------------------------------
\* Both streak implementations side by side: a ComboTracker (state) and the
\* combo_state of a ZeldaManager, fed the same success/failure events
\* ------------------------------------------------------------------------

\* One event: record_action(success) on the tracker and _update_combo(success)
\* on the manager
Combos_event(success) ==
    /\ obj = "Combos"
    /\ LET handled == IF success THEN ComboTracker__handle_success(state)
                                 ELSE ComboTracker__handle_failure(state)
           updated == ZeldaManager__update_combo(combo_state, success, config)
       IN  /\ state' = handled.state
           /\ combo_state' = updated.state
           /\ ret' = <<handled.result, updated.sound>>
    /\ call' = [op |-> "event", success |-> success]
    /\ UNCHANGED <<obj, bpVars, thVars, ioVars, stVars, amVars, debVars,
                   config, config_file, all_time_stats, current_session,
                   achievement_progress, error_free_count, stats_file,
                   achievements_file, session_files>>

InitCombos == Init /\ obj = "Combos"

NextCombos ==
    \E s \in BOOLEAN :
        /\ s => /\ state.current_streak < StreakCommands
                /\ state.total_combos_achieved < MaxCombos
        /\ Combos_event(s)

SpecCombos == InitCombos /\ [][NextCombos]_vars

\* ------------------------------------------------------------------------
\* The whole catalog: one AchievementManager called with counters up to and
\* beyond the largest requirement of each group
\* ------------------------------------------------------------------------
InitCatalog == Init /\ obj = "AchievementManager"

NextCatalog ==
    \E tc \in {0, 100, 1000}, sk \in {0, 20, 50}, ef \in {0, 50}, tu \in {0, 20} :
        AchievementManager_check_command_achievements(tc, sk, ef, tu)

SpecCatalog == InitCatalog /\ [][NextCatalog]_vars

\* ------------------------------------------------------------------------
\* One BatchProcessor whose second operation calls add_operation on it.  The
\* threads are scheduled fairly and the clock advances
\* ------------------------------------------------------------------------
InitReentrant == Init /\ obj = "BatchProcessor"

NextReentrant ==
    \/ \E t \in {"main", "op"} :
           /\ added < MaxOperations
           /\ BatchProcessor_add_operation_on(t)
    \/ BatchProcessor__background_flush_on
    \/ \E n \in 1..MaxOperations : BatchProcessor_worker(n)
    \/ BatchProcessor_flushed
    \/ BatchProcessor_tick

SpecReentrant ==
    /\ InitReentrant
    /\ [][NextReentrant]_vars
    /\ WF_bpVars(BatchProcessor_add_operation_on("op"))
    /\ WF_bpVars(BatchProcessor__background_flush_on)
    /\ WF_bpVars(\E n \in 1..MaxOperations : BatchProcessor_worker(n))
    /\ WF_bpVars(BatchProcessor_flushed)
    /\ WF_bpVars(BatchProcessor_tick)

\* ------------------------------------------------------------------------
\* The crowded history: one debouncer asked about more signatures than the
\* deque holds.  Signatures that were never used are interchangeable, so a
\* call names either a signature used before or the next unused one
\* ------------------------------------------------------------------------
Signatures == <<"c1", "c2", "c3", "c4", "c5", "c6", "c7", "c8", "c9", "c10",
                "c11", "c12", "c13", "c14">>

InitDebounce == Init /\ obj = "CommandDebouncer"

NextDebounce ==
    \E i \in 1..Len(Signatures), dt \in {0, threshold_ms} :
        /\ i \in {1, 2, Cardinality({e[2] : e \in accepted}) + 1}
        /\ Cardinality(accepted) < MaxAccepted
        /\ now + dt <= threshold_ms
        /\ CommandDebouncer_should_process(Signatures[i], dt)

SpecDebounce == InitDebounce /\ [][NextDebounce]_vars

\* ------------------------------------------------------------------------
\* Damaged records: the constructors over files the environment rewrote;
\* one session "s1" per object
\* ------------------------------------------------------------------------
InitLoad == Init /\ obj \in {"ZeldaManager", "StatsTracker", "AchievementManager"}

\* One file at a time is damaged.  No method runs on an object whose
\* constructor raised, and the manager's methods are left out once its
\* configuration is not the "sounds" mapping
NextLoad ==
    \/ \E which \in {"stats", "achievements", "config"}, content \in CorruptContents :
           /\ {stats_file, achievements_file, config_file, st_stats_file,
                am_achievements_file} \cap CorruptContents = {}
           /\ CorruptRecord(which, content)
    \/ ZeldaManager___init__
    \/ StatsTracker___init__
    \/ AchievementManager___init__
    \/ /\ config \in SoundsConfig
       /\ \/ /\ all_time_stats.total_sessions < 1
             /\ ZeldaManager_start_session("s1")
          \/ ZeldaManager_end_session
          \/ \E s \in BOOLEAN :
                 /\ Recorded(all_time_stats, current_session) < DiskCommands
                 /\ ZeldaManager_record_command("Bash", s)
    \/ /\ "raised" \notin DOMAIN call
       /\ \/ /\ st_all_time_stats.total_sessions < 1
             /\ StatsTracker_start_session("s1")
          \/ StatsTracker_end_session
          \/ \E s \in BOOLEAN :
                 /\ Recorded(st_all_time_stats, st_current_session) < DiskCommands
                 /\ StatsTracker_record_command("Bash", s)
          \/ AchievementManager_check_command_achievements(1, 0, 0, 0)

SpecLoad == InitLoad /\ [][NextLoad]_vars

\* ------------------------------------------------------------------------
\* Disk faults: a process killed inside a write, a write that raises, the
\* writer threads of OptimizedFileIO; one session "s1" per process
\* ------------------------------------------------------------------------
InitDisk == Init /\ obj \in {"ZeldaManager", "OptimizedFileIO"}

ZeldaManagerDisk ==
    \/ /\ all_time_stats.total_sessions < 1
       /\ ZeldaManager_start_session("s1")
    \/ ZeldaManager_end_session
    \/ \E s \in BOOLEAN :
           /\ Recorded(all_time_stats, current_session) < DiskCommands
           /\ ZeldaManager_record_command("Bash", s)
    \/ ZeldaManager___init__
    \/ ZeldaManager_start_session_killed
    \/ \E during \in {"session_file", "save_stats"} : ZeldaManager_end_session_killed(during)
    \/ \E s \in BOOLEAN :
           /\ Recorded(all_time_stats, current_session) < DiskCommands
           /\ ZeldaManager_record_command_killed("Bash", s)
    \/ \E emptied \in BOOLEAN :
           /\ all_time_stats.total_sessions < 1
           /\ ZeldaManager_start_session_write_fails("s1", emptied)
    \/ \E emptied \in BOOLEAN :
           /\ Recorded(all_time_stats, current_session) < DiskCommands
           /\ ZeldaManager_end_session_write_fails(emptied)
    \/ \E s \in BOOLEAN, emptied \in BOOLEAN :
           /\ Recorded(all_time_stats, current_session) < DiskCommands
           /\ ZeldaManager_record_command_write_fails("Bash", s, emptied)

NextDisk ==
    \/ ZeldaManagerDisk
    \/ OptimizedFileIONext
    \/ \E w \in Writers : OptimizedFileIO_write_fails(w)

SpecDisk == InitDisk /\ [][NextDisk]_vars

\* ------------------------------------------------------------------------
\* Properties
\* ------------------------------------------------------------------------

\* C1: while a session is open, in ZeldaManager and in StatsTracker, the
\* session's total_commands equals successful_commands + failed_commands.
C1_SessionTotalsBalance ==
    /\ current_session # NoSession =>
           current_session.total_commands =
               current_session.successful_commands + current_session.failed_commands
    /\ st_current_session # NoSession =>
           st_current_session.total_commands =
               st_current_session.successful_commands + st_current_session.failed_commands

\* A ZeldaManager session that has recorded both successes and failures
C1_Witness ==
    /\ obj = "ZeldaManager"
    /\ call.op = "record_command"
    /\ current_session # NoSession
    /\ current_session.successful_commands >= 2
    /\ current_session.failed_commands >= 1

\* C2: the current streak never exceeds the maximum streak: in StatsTracker's
\* session, in ComboTracker's state and in ZeldaManager's combo_state.
C2_StreakAtMostMax ==
    /\ st_current_session # NoSession =>
           st_current_session.current_streak <= st_current_session.max_streak
    /\ state.current_streak <= state.highest_streak
    /\ combo_state.current_streak <= combo_state.highest_streak

\* A ComboTracker streak regrown after a break, below the earlier maximum
C2_Witness ==
    /\ obj = "ComboTracker"
    /\ call.op = "record_action"
    /\ call.success
    /\ state.current_streak = 2
    /\ state.highest_streak >= 3

\* C3: right after a failed tool event current_streak is 0 and
\* last_level_reached is NONE, whatever the streak was before: in
\* ComboTracker.record_action(False) and in ZeldaManager.record_command(tool, False).
C3_FailureResetsStreak ==
    /\ (obj = "ComboTracker" /\ call.op = "record_action" /\ ~call.success) =>
           /\ state.current_streak = 0
           /\ state.last_level_reached = "NONE"
    /\ (obj = "ZeldaManager" /\ call.op = "record_command" /\ ~call.success) =>
           /\ combo_state.current_streak = 0
           /\ combo_state.last_level_reached = "NONE"

\* C4: tier crossing is edge-triggered.  Every counted success raises the
\* streak by one, so within an unbroken streak each threshold 3, 5, 10, 20, 50
\* is met once and in ascending order; the success whose streak equals a
\* threshold returns that tier's cue, every other success returns no tier cue.
\* ComboTracker returns the cue always, ZeldaManager when sounds.combo is on
\* (its cue list is the tier cue followed by the achievement cues).
C4_TierCueOnThreshold ==
    [][ LET TierCue(n) == IF n = 3 THEN "item_small.wav"
                          ELSE IF n = 5 THEN "heart_get.wav"
                          ELSE IF n = 10 THEN "achievement.wav"
                          ELSE IF n = 20 THEN "shrine_complete.wav"
                          ELSE IF n = 50 THEN "session_start.wav"
                          ELSE None
            Unlocks == IF config.achievements
                       THEN [i \in 1..(Len(current_session'.achievements_unlocked)
                                        - Len(current_session.achievements_unlocked))
                               |-> "achievement.wav"]
                       ELSE <<>>
        IN  /\ (obj = "ComboTracker" /\ call'.op = "record_action" /\ call'.success) =>
                   /\ state'.current_streak = state.current_streak + 1
                   /\ ret' = <<TierCue(state'.current_streak), None>>
            /\ (obj = "ZeldaManager" /\ call'.op = "record_command" /\ call'.success
                    /\ current_session # NoSession) =>
                   /\ combo_state'.current_streak = combo_state.current_streak + 1
                   /\ ret' = (IF config.combo /\ TierCue(combo_state'.current_streak) # None
                              THEN <<TierCue(combo_state'.current_streak)>>
                              ELSE <<>>) \o Unlocks
      ]_vars

\* A ZeldaManager streak that has crossed all five tiers, the last just now
C4_Witness ==
    /\ obj = "ZeldaManager"
    /\ call.op = "record_command"
    /\ call.success
    /\ config.combo
    /\ combo_state.current_streak = 50
    /\ combo_state.total_combos_achieved = 5
    /\ Len(ret) >= 1
    /\ ret[1] = "session_start.wav"

\* C4 as stated: the tier cue is returned on every threshold, whatever the
\* configuration.
C4_TierCueAlways ==
    [][ LET TierCue(n) == IF n = 3 THEN "item_small.wav"
                          ELSE IF n = 5 THEN "heart_get.wav"
                          ELSE IF n = 10 THEN "achievement.wav"
                          ELSE IF n = 20 THEN "shrine_complete.wav"
                          ELSE IF n = 50 THEN "session_start.wav"
                          ELSE None
            Unlocks == IF config.achievements
                       THEN [i \in 1..(Len(current_session'.achievements_unlocked)
                                        - Len(current_session.achievements_unlocked))
                               |-> "achievement.wav"]
                       ELSE <<>>
        IN  /\ (obj = "ComboTracker" /\ call'.op = "record_action" /\ call'.success) =>
                   /\ state'.current_streak = state.current_streak + 1
                   /\ ret' = <<TierCue(state'.current_streak), None>>
            /\ (obj = "ZeldaManager" /\ call'.op = "record_command" /\ call'.success
                    /\ current_session # NoSession) =>
                   /\ combo_state'.current_streak = combo_state.current_streak + 1
                   /\ ret' = (IF TierCue(combo_state'.current_streak) # None
                              THEN <<TierCue(combo_state'.current_streak)>>
                              ELSE <<>>) \o Unlocks
      ]_vars

\* C5: achievement progress is a high-water mark: no step lowers progress[id]
\* for any achievement id, in ZeldaManager's achievement_progress or in
\* AchievementManager's progress, even when a failure resets the counter.
C5_ProgressNeverDecreases ==
    [][ /\ \A i \in 1..Len(ACHIEVEMENTS) :
               DictGet(achievement_progress'.progress, ACHIEVEMENTS[i][1], 0)
                   >= DictGet(achievement_progress.progress, ACHIEVEMENTS[i][1], 0)
        /\ \A aid \in DOMAIN progress :
               progress'[aid].current_progress >= progress[aid].current_progress
      ]_vars

\* C6: an achievement is a one-time unlock.  No step removes an id from
\* ZeldaManager's unlocked set or clears an AchievementManager unlocked flag;
\* an id that record_command appends to session.achievements_unlocked was not
\* unlocked before the call, the list never holds an id twice, and the call
\* returns one achievement cue per id it appended and no other; the ids
\* check_command_achievements returns were not unlocked before the call.
C6_UnlockedOnce ==
    [][ /\ achievement_progress.achievements_unlocked
               \subseteq achievement_progress'.achievements_unlocked
        /\ \A aid \in DOMAIN progress : progress[aid].unlocked => progress'[aid].unlocked
        /\ (obj = "ZeldaManager" /\ call'.op = "record_command"
                /\ current_session # NoSession) =>
               LET old == current_session.achievements_unlocked
                   new == current_session'.achievements_unlocked
                   combo_cue == IF call'.success
                                THEN config.combo /\ combo_state'.total_combos_achieved
                                                       > combo_state.total_combos_achieved
                                ELSE combo_state.current_streak >= 3
               IN  /\ Len(new) >= Len(old)
                   /\ SubSeq(new, 1, Len(old)) = old
                   /\ \A i \in (Len(old) + 1)..Len(new) :
                          /\ new[i] \notin achievement_progress.achievements_unlocked
                          /\ new[i] \in achievement_progress'.achievements_unlocked
                   /\ \A i, j \in 1..Len(new) : new[i] = new[j] => i = j
                   /\ Len(ret') = (IF combo_cue THEN 1 ELSE 0)
                                    + (IF config.achievements THEN Len(new) - Len(old) ELSE 0)
        /\ (obj = "AchievementManager" /\ call'.op = "check_command_achievements") =>
               /\ \A i \in 1..Len(ret') : /\ ~progress[ret'[i][1]].unlocked
                                          /\ progress'[ret'[i][1]].unlocked
               /\ \A i, j \in 1..Len(ret') : ret'[i][1] = ret'[j][1] => i = j
      ]_vars

\* ZeldaManager after a failure broke the streak that unlocked combo_bronze:
\* the achievement is still unlocked and the failed call reported no unlock
C6_Witness ==
    /\ obj = "ZeldaManager"
    /\ call.op = "record_command"
    /\ ~call.success
    /\ current_session # NoSession
    /\ combo_state.current_streak = 0
    /\ "combo_bronze" \in achievement_progress.achievements_unlocked
    /\ config.achievements
    /\ ret = <<"damage.wav">>

\* C7: session end is idempotent.  An end_session that closes a session adds
\* the session's counters to the all-time totals; an end_session that directly
\* follows another end_session changes neither the all-time record nor any
\* file, in ZeldaManager and in StatsTracker.
C7_EndSessionIdempotent ==
    [][ /\ (obj = "ZeldaManager" /\ call'.op = "end_session") =>
               /\ current_session' = NoSession
               /\ current_session # NoSession =>
                      /\ all_time_stats'.total_commands =
                             all_time_stats.total_commands + current_session.total_commands
                      /\ all_time_stats'.total_successes =
                             all_time_stats.total_successes + current_session.successful_commands
                      /\ all_time_stats'.total_failures =
                             all_time_stats.total_failures + current_session.failed_commands
               /\ call.op = "end_session" =>
                      /\ all_time_stats' = all_time_stats
                      /\ stats_file' = stats_file
                      /\ session_files' = session_files
        /\ (obj = "StatsTracker" /\ call'.op = "end_session") =>
               /\ st_current_session' = NoSession
               /\ st_current_session # NoSession =>
                      /\ st_all_time_stats'.total_commands =
                             st_all_time_stats.total_commands + st_current_session.total_commands
                      /\ st_all_time_stats'.total_successes =
                             st_all_time_stats.total_successes + st_current_session.successful_commands
                      /\ st_all_time_stats'.total_failures =
                             st_all_time_stats.total_failures + st_current_session.failed_commands
               /\ call.op = "end_session" =>
                      /\ st_all_time_stats' = st_all_time_stats
                      /\ st_stats_file' = st_stats_file
                      /\ st_session_files' = st_session_files
      ]_vars

\* A second end_session in a row, after sessions that recorded commands
C7_Witness ==
    /\ obj = "ZeldaManager"
    /\ call.op = "end_session"
    /\ call.again
    /\ all_time_stats.total_sessions >= 2
    /\ all_time_stats.total_commands >= 2
    /\ all_time_stats.total_commands = all_time_stats.total_successes + all_time_stats.total_failures

\* C8: with the 100 ms threshold the first should_process call is accepted;
\* a call with the signature of an accepted call made 50 ms earlier is
\* rejected, one made 150 ms after the previous call is accepted; and a call
\* whose signature is not in the history is accepted however recently other
\* signatures were accepted.
C8_Debounce ==
    [][ (obj = "CommandDebouncer" /\ call'.op = "should_process") =>
            /\ call'.nth = 1 => ret' = TRUE
            /\ (call.op = "should_process" /\ ret = TRUE
                    /\ call'.command = call.command /\ now' - now = 50) => ret' = FALSE
            /\ (call.op = "should_process" /\ now' - now = 150) => ret' = TRUE
            /\ (\A i \in 1..Len(last_commands) : last_commands[i][2] # call'.command)
                   => ret' = TRUE
      ]_vars

\* The pair (true, false): the second of two calls with one signature 50 ms apart
C8_Witness ==
    /\ obj = "CommandDebouncer"
    /\ call.op = "should_process"
    /\ call.nth = 2
    /\ ret = FALSE
    /\ Len(last_commands) = 1
    /\ last_commands[1][2] = call.command
    /\ call.time - last_commands[1][1] = 50

\* C9: a tool event with no session open opens an implicit session: after
\* any record_command a current session exists and holds at least the event
\* just recorded, in ZeldaManager and in StatsTracker.
C9_ImplicitSession ==
    /\ (obj = "ZeldaManager" /\ call.op = "record_command") =>
           /\ current_session # NoSession
           /\ current_session.total_commands >= 1
    /\ (obj = "StatsTracker" /\ call.op = "record_command") =>
           /\ st_current_session # NoSession
           /\ st_current_session.total_commands >= 1

\* C10: a fresh ZeldaManager with the default configuration, start_session("s1")
\* and three successful record_command("Bash", True) calls: the first call
\* returns the first_step achievement cue, the second nothing, the third the
\* Bronze cue followed by the combo_bronze achievement cue, each once; a
\* following record_command("Bash", False) returns the break cue and leaves
\* current_streak at 0.
C10_FreshSessionScenario ==
    (/\ obj = "ZeldaManager"
     /\ config = DEFAULT_CONFIG
     /\ call.op = "record_command"
     /\ current_session # NoSession) =>
        LET n == current_session.total_commands
            ok == current_session.successful_commands
        IN  /\ (n = 1 /\ ok = 1) =>
                   /\ ret = <<"achievement.wav">>
                   /\ current_session.achievements_unlocked = <<"first_step">>
            /\ (n = 2 /\ ok = 2) => ret = <<>>
            /\ (n = 3 /\ ok = 3) =>
                   /\ ret = <<"item_small.wav", "achievement.wav">>
                   /\ current_session.achievements_unlocked = <<"first_step", "combo_bronze">>
                   /\ combo_state.current_streak = 3
            /\ (n = 4 /\ ok = 3 /\ ~call.success /\ combo_state.highest_streak = 3) =>
                   /\ ret = <<"damage.wav">>
                   /\ combo_state.current_streak = 0

\* The state after the failure that follows the three successes
C10_Witness ==
    /\ obj = "ZeldaManager"
    /\ config = DEFAULT_CONFIG
    /\ call.op = "record_command"
    /\ ~call.success
    /\ current_session # NoSession
    /\ current_session.session_id = "s1"
    /\ current_session.tools_used = << <<"Bash", 4>> >>
    /\ current_session.successful_commands = 3
    /\ combo_state.highest_streak = 3
    /\ current_session.achievements_unlocked = <<"first_step", "combo_bronze">>
    /\ ret = <<"damage.wav">>

\* C10 as stated: the third call's cue list holds the Bronze cue once and an
\* achievement cue for first_step and for combo_bronze, the achievement with
\* requirement 3; the failure that follows returns the break cue and leaves
\* current_streak at 0.
C10_ThirdCallAllCues ==
    (/\ obj = "ZeldaManager"
     /\ config = DEFAULT_CONFIG
     /\ call.op = "record_command"
     /\ current_session # NoSession) =>
        LET n == current_session.total_commands
            ok == current_session.successful_commands
        IN  /\ (n = 3 /\ ok = 3) =>
                   /\ Len(SelectSeq(ret, LAMBDA c : c = "item_small.wav")) = 1
                   /\ Len(SelectSeq(ret, LAMBDA c : c = "achievement.wav")) = 2
            /\ (n = 4 /\ ok = 3 /\ ~call.success /\ combo_state.highest_streak = 3) =>
                   /\ ret = <<"damage.wav">>
                   /\ combo_state.current_streak = 0

\* C11: the all-time record of ZeldaManager and of StatsTracker always has
\* total_commands = total_successes + total_failures, and no start_session,
\* record_command or end_session lowers total_sessions, total_commands,
\* total_successes, total_failures or longest_streak.
C11_AllTimeBalancedAndMonotone ==
    [][ LET Balanced(a) == a.total_commands = a.total_successes + a.total_failures
            NotLowered(a, b) == /\ b.total_sessions  >= a.total_sessions
                                /\ b.total_commands  >= a.total_commands
                                /\ b.total_successes >= a.total_successes
                                /\ b.total_failures  >= a.total_failures
                                /\ b.longest_streak  >= a.longest_streak
        IN  /\ Balanced(all_time_stats')
            /\ Balanced(st_all_time_stats')
            /\ NotLowered(all_time_stats, all_time_stats')
            /\ NotLowered(st_all_time_stats, st_all_time_stats')
      ]_vars

\* An all-time record that has folded a session with successes and a failure
C11_Witness ==
    /\ obj = "StatsTracker"
    /\ call.op = "end_session"
    /\ st_all_time_stats.total_sessions = 2
    /\ st_all_time_stats.total_successes >= 2
    /\ st_all_time_stats.total_failures >= 1
    /\ st_all_time_stats.longest_streak >= 2

\* C12: persistence round-trip.  Loading what save_stats writes for the
\* current all-time record gives that record back field for field, and a
\* newly constructed ZeldaManager holds the all-time record of the manager
\* before it, with the totals of every ended session.
C12_StatsRoundTrip ==
    [][ /\ ZeldaManager__load_all_time_stats(ZeldaManager_save_stats(all_time_stats'))
               = all_time_stats'
        /\ (obj = "ZeldaManager" /\ call'.op = "__init__") =>
               /\ all_time_stats' = all_time_stats
               /\ stats_file.exists =>
                      \A i \in 1..Len(AllTimeStatsFields) :
                          all_time_stats'[AllTimeStatsFields[i]]
                              = stats_file.members[i][2]
      ]_vars

\* A new manager constructed after a session with commands was ended
C12_Witness ==
    /\ obj = "ZeldaManager"
    /\ call.op = "__init__"
    /\ stats_file.exists
    /\ all_time_stats.total_sessions >= 1
    /\ all_time_stats.total_commands >= 2
    /\ all_time_stats.total_successes >= 1
    /\ all_time_stats.total_failures >= 1

\* C13: concurrent record_command calls lose no update: once every call has
\* returned, the session's total_commands, successful_commands +
\* failed_commands and the sum of tools_used all equal the number of calls
\* made while the session was open.
C13_NoLostUpdate ==
    (/\ obj = "ZeldaManager"
     /\ current_session # NoSession
     /\ \A t \in Threads : threads[t].pc = "idle") =>
        LET N == threads[1].calls + threads[2].calls
        IN  /\ current_session.total_commands = N
            /\ current_session.successful_commands + current_session.failed_commands = N
            /\ DictSum(current_session.tools_used) = N

\* C14: at every point during a write, a crash between two steps included,
\* a persisted file holds a complete record, never a partial one; for
\* write_json_async and for save_stats, save_achievements and the session write
C14_NeverPartial ==
    LET Complete(f) == f.exists => f.kind = "object"
    IN  /\ Complete(io_file)
        /\ Complete(stats_file)
        /\ Complete(achievements_file)
        /\ \A id \in DOMAIN session_files : Complete(session_files[id])

\* C15: debouncing gates cue emission only: every tool event delivered to
\* handle_tool_execution while a session is open increases the session's
\* total_commands by one, an event the debouncer rejects included
C15_EveryEventCounted ==
    [][ (/\ obj = "Hook"
         /\ call'.op = "handle_tool_execution"
         /\ current_session # NoSession)
        => current_session'.total_commands = current_session.total_commands + 1 ]_vars

\* C16: start_session called while a session is open closes it first: the
\* open session's total, successes, failures and best streak are folded into
\* the all-time record and its session record is written before the new
\* session replaces it
C16_ImplicitCloseThenOpen ==
    [][ LET Folded(ats, session, after) ==
                /\ after.total_commands = ats.total_commands + session.total_commands
                /\ after.total_successes = ats.total_successes + session.successful_commands
                /\ after.total_failures = ats.total_failures + session.failed_commands
                /\ after.longest_streak >= session.max_streak
        IN  /\ (/\ obj = "ZeldaManager"
                /\ call'.op = "start_session"
                /\ current_session # NoSession)
               => /\ Folded(all_time_stats, current_session, all_time_stats')
                  /\ session_files'[current_session.session_id].exists
            /\ (/\ obj = "StatsTracker"
                /\ call'.op = "start_session"
                /\ st_current_session # NoSession)
               => /\ Folded(st_all_time_stats, st_current_session, st_all_time_stats')
                  /\ st_session_files'[st_current_session.session_id].exists ]_vars

\* C17: a constructor over a persisted record that fails to parse or has the
\* wrong shape raises nothing, and the record in memory is the default: the
\* all-time statistics, the achievement progress and the configuration
C17_CorruptRecordDiscarded ==
    [][ call'.op = "__init__" =>
          /\ "raised" \notin DOMAIN call'
          /\ (obj = "ZeldaManager" /\ stats_file \in CorruptContents)
                => all_time_stats' = AllTimeStats
          /\ (obj = "ZeldaManager" /\ achievements_file \in CorruptContents)
                => achievement_progress' = AchievementProgress
          /\ (obj = "ZeldaManager" /\ config_file \in CorruptContents)
                => config' = DEFAULT_CONFIG
          /\ (obj = "StatsTracker" /\ st_stats_file \in CorruptContents)
                => st_all_time_stats' = AllTimeStats
          /\ (obj = "AchievementManager" /\ am_achievements_file \in CorruptContents)
                => progress' = InitialProgress ]_vars

\* C18: a failing disk write never crashes the calling event path:
\* start_session, record_command and end_session return normally when the
\* write of the statistics, the achievements or the session file fails
C18_WriteFailureContained ==
    "raised" \notin DOMAIN call

\* C19: one evaluation pass unlocks every achievement it crosses: after
\* AchievementManager.update_progress, and after the evaluation run by
\* ZeldaManager.record_command, every non-collector achievement whose counter
\* in that pass is at least its requirement is unlocked, and each one that
\* was not unlocked before is in what the pass returns
C19_AllCrossedUnlocked ==
    [][ /\ (obj = "AchievementManager" /\ call'.op = "check_command_achievements")
           => \A aid \in CatalogIds \ {Collectors[i] : i \in 1..Len(Collectors)} :
                 /\ progress'[aid].current_progress >= progress'[aid].requirement
                       => progress'[aid].unlocked
                 /\ (progress'[aid].unlocked /\ ~progress[aid].unlocked)
                       => \E i \in 1..Len(ret') : ret'[i][1] = aid
        /\ (obj = "ZeldaManager" /\ call'.op = "record_command"
                                 /\ current_session # NoSession)
           => \A i \in 1..Len(ACHIEVEMENTS) :
                 LET aid == ACHIEVEMENTS[i][1]
                     req == ACHIEVEMENTS[i][2]
                     counter == ZeldaManager_counter(aid,
                                    all_time_stats.total_commands
                                        + current_session'.total_commands,
                                    combo_state'.current_streak, error_free_count')
                 IN  /\ counter >= req
                           => aid \in achievement_progress'.achievements_unlocked
                     /\ (/\ aid \in achievement_progress'.achievements_unlocked
                         /\ aid \notin achievement_progress.achievements_unlocked)
                           => \E k \in 1..Len(current_session'.achievements_unlocked) :
                                 current_session'.achievements_unlocked[k] = aid ]_vars

\* C20: a failed tool event returns the break cue damage.wav exactly when
\* the streak just before it was at least 3, and no call returns both a
\* tier cue and the break cue
C20_BreakCueIffStreak ==
    [][ /\ (obj = "ComboTracker" /\ call'.op = "record_action")
           => /\ ~call'.success
                    => (ret'[2] = "damage.wav" <=> state.current_streak >= 3)
              /\ call'.success => ret'[2] = None
              /\ ret'[1] = None \/ ret'[2] = None
        /\ (obj = "ZeldaManager" /\ call'.op = "record_command")
           => LET Cues == {ret'[i] : i \in 1..Len(ret')}
              IN  /\ ~call'.success
                        => /\ "damage.wav" \in Cues <=> combo_state.current_streak >= 3
                           /\ Cues \subseteq {"damage.wav", "achievement.wav"}
                  /\ call'.success => "damage.wav" \notin Cues ]_vars

\* C21: end_session folds the session into the all-time record: the three
\* totals grow by the session's counters, longest_streak becomes the larger
\* of its old value and the longest run of successes of that session, and
\* longest_streak_date changes only when longest_streak grew
C21_EndSessionFolds ==
    [][ LET Folded(ats, session, best, after) ==
                /\ after.total_commands = ats.total_commands + session.total_commands
                /\ after.total_successes = ats.total_successes + session.successful_commands
                /\ after.total_failures = ats.total_failures + session.failed_commands
                /\ after.longest_streak = Max(ats.longest_streak, best)
                /\ after.longest_streak_date # ats.longest_streak_date
                      => after.longest_streak > ats.longest_streak
        IN  /\ (/\ obj = "ZeldaManager"
                /\ call'.op = "end_session"
                /\ current_session # NoSession)
               => Folded(all_time_stats, current_session,
                         combo_state.highest_streak, all_time_stats')
            /\ (/\ obj = "StatsTracker"
                /\ call'.op = "end_session"
                /\ st_current_session # NoSession)
               => Folded(st_all_time_stats, st_current_session,
                         st_current_session.max_streak, st_all_time_stats') ]_vars

\* C22: end_session merges the session's tools_used into the all-time
\* tool_usage, and favorite_tool is a tool with the largest merged count,
\* among several such the one whose key entered tool_usage first
C22_FavoriteTool ==
    [][ LET Merged(ats, session, after) ==
                /\ \A t \in Tools :
                      DictGet(after.tool_usage, t, 0)
                         = DictGet(ats.tool_usage, t, 0) + DictGet(session.tools_used, t, 0)
                /\ after.tool_usage # <<>>
                      => \E i \in 1..Len(after.tool_usage) :
                            /\ after.favorite_tool = after.tool_usage[i][1]
                            /\ \A k \in 1..Len(after.tool_usage) :
                                  after.tool_usage[k][2] <= after.tool_usage[i][2]
                            /\ \A k \in 1..(i - 1) :
                                  after.tool_usage[k][2] < after.tool_usage[i][2]
        IN  /\ (/\ obj = "ZeldaManager"
                /\ call'.op = "end_session"
                /\ current_session # NoSession)
               => Merged(all_time_stats, current_session, all_time_stats')
            /\ (/\ obj = "StatsTracker"
                /\ call'.op = "end_session"
                /\ st_current_session # NoSession)
               => Merged(st_all_time_stats, st_current_session, st_all_time_stats') ]_vars

\* C23: in the list record_command returns, the streak cue (tier or break),
\* when there is one, stands before every achievement cue, and the
\* achievement evaluation of the call works on the streak as it is after the
\* event: what it stores for a streak achievement is the new streak
C23_StreakCueFirst ==
    [][ (/\ obj = "ZeldaManager"
         /\ call'.op = "record_command"
         /\ current_session # NoSession)
        => LET cue == ZeldaManager__update_combo(combo_state, call'.success, config).sound
               gained == achievement_progress'.achievements_unlocked
                            \ achievement_progress.achievements_unlocked
               rest == IF cue = None THEN ret' ELSE Tail(ret')
               StreakIds == {"combo_bronze", "combo_silver", "combo_gold", "combo_platinum"}
           IN  /\ cue # None => (ret' # <<>> /\ Head(ret') = cue)
               /\ \A i \in 1..Len(rest) : rest[i] = "achievement.wav"
               /\ Len(rest) = IF config.achievements THEN Cardinality(gained) ELSE 0
               /\ \A aid \in StreakIds :
                     \/ /\ aid \notin gained
                        /\ DictGet(achievement_progress'.progress, aid, 0)
                              = DictGet(achievement_progress.progress, aid, 0)
                     \/ DictGet(achievement_progress'.progress, aid, 0)
                              = combo_state'.current_streak ]_vars

\* C23 witness: the third success in a row returned the BRONZE cue followed
\* by the cue of combo_bronze, unlocked by that same call
C23_Witness ==
    /\ obj = "ZeldaManager"
    /\ call.op = "record_command"
    /\ combo_state.current_streak = 3
    /\ ret = <<"item_small.wav", "achievement.wav">>
    /\ "combo_bronze" \in achievement_progress.achievements_unlocked
    /\ DictGet(achievement_progress.progress, "combo_bronze", 0) = 3

\* C24: start_session resets the session-scoped state: right after it the
\* session counters are 0, the combo state is (0, 0, NONE, 0) and the
\* error-free run is 0, so the first success of the new session makes a
\* streak of 1 whatever streak the session before had built
C24_StartSessionResets ==
    [][ /\ (obj = "ZeldaManager" /\ call'.op = "start_session")
           => /\ current_session' # NoSession
              /\ current_session'.total_commands = 0
              /\ current_session'.successful_commands = 0
              /\ current_session'.failed_commands = 0
              /\ current_session'.max_streak = 0
              /\ current_session'.current_streak = 0
              /\ current_session'.tools_used = <<>>
              /\ current_session'.achievements_unlocked = <<>>
              /\ combo_state'.current_streak = 0
              /\ combo_state'.highest_streak = 0
              /\ combo_state'.last_level_reached = "NONE"
              /\ combo_state'.total_combos_achieved = 0
              /\ error_free_count' = 0
        /\ (/\ obj = "ZeldaManager"
            /\ call.op = "start_session"
            /\ call'.op = "record_command"
            /\ call'.success)
           => /\ combo_state'.current_streak = 1
              /\ combo_state'.highest_streak = 1
              /\ error_free_count' = 1
              /\ \A i \in 1..Len(ret') : ret'[i] = "achievement.wav" ]_vars

\* C24 witness: a second session was started after a session that had built
\* a streak of two, and the combo state is the initial one again
C24_Witness ==
    /\ obj = "ZeldaManager"
    /\ call.op = "start_session"
    /\ all_time_stats.total_sessions = 2
    /\ all_time_stats.total_successes >= 2
    /\ all_time_stats.total_failures = 0
    /\ combo_state = ComboState
    /\ error_free_count = 0

\* C25: in every state of a ZeldaManager reached by start_session,
\* record_command and end_session calls, the error-free run equals the
\* current streak
C25_ErrorFreeIsStreak ==
    obj = "ZeldaManager" => error_free_count = combo_state.current_streak

\* C25 witness: a streak was broken by a failure and a new one of five was
\* built after it; both counters stand at five
C25_Witness ==
    /\ obj = "ZeldaManager"
    /\ call.op = "record_command"
    /\ current_session # NoSession
    /\ current_session.failed_commands = 1
    /\ combo_state.highest_streak > combo_state.current_streak
    /\ combo_state.current_streak = 5
    /\ error_free_count = 5

\* C26: a should_process call answers False exactly when a call with the
\* same signature was answered True less than threshold_ms before it,
\* however many other calls were answered True in between
C26_DebouncedIffRecent ==
    [][ (obj = "CommandDebouncer" /\ call'.op = "should_process")
        => (ret' = FALSE
              <=> \E e \in accepted :
                     /\ e[2] = call'.command
                     /\ call'.time - e[1] < threshold_ms) ]_vars

\* C27: the count by which update_progress measures sound_hunter,
\* achievement_hunter and completionist includes every achievement the first
\* pass of that same call unlocked: it is the number unlocked before the call
\* plus the number the first pass added, and a collector still locked is
\* unlocked exactly when that count reaches its requirement
C27_CollectorsSeeFirstPass ==
    [][ (obj = "AchievementManager" /\ call'.op = "check_command_achievements")
        => LET before == {a \in DOMAIN progress : progress[a].unlocked}
               first  == {a \in DOMAIN progress' :
                             /\ progress'[a].unlocked
                             /\ a \notin before
                             /\ a \notin {"sound_hunter", "achievement_hunter",
                                          "completionist"}}
               count  == Cardinality(before) + Cardinality(first)
           IN  \A aid \in {"sound_hunter", "achievement_hunter", "completionist"} :
                   aid \notin before
                   => /\ progress'[aid].current_progress = count
                      /\ progress'[aid].unlocked <=> count >= progress'[aid].requirement ]_vars

\* C27 witness: one call unlocked first_step among five or more in its first
\* pass and sound_hunter, which needs five, in its second
C27_Witness ==
    /\ obj = "AchievementManager"
    /\ call.op = "check_command_achievements"
    /\ Len(ret) >= 6
    /\ ret[1][1] = "first_step"
    /\ ret[Len(ret)][1] = "sound_hunter"
    /\ progress["sound_hunter"].current_progress = Len(ret) - 1

\* C28: a call that adds an id to the unlocked set also writes the
\* achievements file, under every configuration: after a record_command of
\* ZeldaManager, and after an update_progress of AchievementManager, that
\* unlocked something the file holds the progress record as it now is
C28_UnlockIsPersisted ==
    [][ /\ (/\ obj = "ZeldaManager"
            /\ call'.op = "record_command"
            /\ achievement_progress'.achievements_unlocked
                  # achievement_progress.achievements_unlocked)
           => achievements_file' = ZeldaManager_save_achievements(achievement_progress')
        /\ (/\ obj = "AchievementManager"
            /\ call'.op = "check_command_achievements"
            /\ \E a \in DOMAIN progress' : progress'[a].unlocked /\ ~progress[a].unlocked)
           => am_achievements_file' = AchievementManager__save_progress(progress') ]_vars

\* C29: one record_command unlocks at most one achievement and returns at
\* most one achievement cue, and an achievement whose counter had reached its
\* requirement in a call that did not unlock it is left for a later
\* record_command to unlock: after each following call it is unlocked or its
\* counter is still at its requirement
C29_OneUnlockPerCall ==
    [][ (/\ obj = "ZeldaManager"
         /\ call'.op = "record_command"
         /\ current_session # NoSession)
        => LET cue == ZeldaManager__update_combo(combo_state, call'.success, config).sound
               Due(aid, req, session, cs, efc) ==
                   ZeldaManager_counter(aid,
                       all_time_stats.total_commands + session.total_commands,
                       cs.current_streak, efc) >= req
           IN  /\ Cardinality(achievement_progress'.achievements_unlocked
                                 \ achievement_progress.achievements_unlocked) <= 1
               /\ Len(current_session'.achievements_unlocked)
                     <= Len(current_session.achievements_unlocked) + 1
               /\ Len(ret') <= (IF cue = None THEN 0 ELSE 1) + 1
               /\ \A i \in 1..Len(ACHIEVEMENTS) :
                     (/\ call.op = "record_command"
                      /\ ACHIEVEMENTS[i][1] \notin achievement_progress.achievements_unlocked
                      /\ Due(ACHIEVEMENTS[i][1], ACHIEVEMENTS[i][2],
                             current_session, combo_state, error_free_count))
                     => \/ ACHIEVEMENTS[i][1] \in achievement_progress'.achievements_unlocked
                        \/ Due(ACHIEVEMENTS[i][1], ACHIEVEMENTS[i][2],
                               current_session', combo_state', error_free_count') ]_vars

\* C30: every operation added to a BatchProcessor is eventually run, and
\* run once only: the add that brings the pending count to batch_size runs
\* all pending operations at once, and the operations of a batch that does
\* not fill are run by the background loop
C30_EveryOperationRunsOnce ==
    /\ [](obj = "BatchProcessor" => \A n \in DOMAIN executed : executed[n] <= 1)
    /\ [][ (/\ obj = "BatchProcessor"
            /\ call'.op = "add_operation"
            /\ added' # added
            /\ Len(pending_operations) + 1 >= batch_size)
           => /\ pending_operations' = <<>>
              /\ \A n \in 1..added' : executed'[n] = 1 ]_vars
    /\ \A n \in 1..MaxOperations :
          (obj = "BatchProcessor" /\ added >= n) ~> (executed[n] = 1)

\* C31: the background flush loop is shut down cleanly: when the process
\* exits nothing is left pending, every operation added has been run, and
\* the loop has ended
C31_FlushedOnExit ==
    [][ (obj = "BatchProcessor" /\ alive /\ ~alive')
        => /\ pending_operations' = <<>>
           /\ \A n \in 1..added' : executed'[n] = 1 ]_vars

\* C32: writes to one file are ordered: when write_json_async(path, A) and
\* then write_json_async(path, B) have both been called and both writer
\* threads have finished, the file holds B and the cache entry holds B
C32_LastWriteWins ==
    (/\ obj = "OptimizedFileIO"
     /\ call.op = "write_json_async"
     /\ \A w \in Writers : io_writers[w].n >= 1 /\ io_writers[w].pc = "idle")
    => /\ io_file = json_dump(call.data)
       /\ file_cache = [exists |-> TRUE, data |-> call.data]

\* C33: after write_json_async(path, d) has completed, with no later write
\* to path, the file holds d and read_json_cached(path) returns d
C33_ReadAfterWrite ==
    /\ [](  (/\ obj = "OptimizedFileIO"
             /\ io_last \in Writers
             /\ io_writers[io_last].pc = "idle"
             /\ io_writers[io_last].ok)
            => io_file = json_dump(io_writers[io_last].data))
    /\ [][ (/\ obj = "OptimizedFileIO"
            /\ io_last \in Writers
            /\ io_writers[io_last].pc = "idle"
            /\ io_writers[io_last].ok
            /\ call'.op = "read_json_cached"
            /\ call' # call)
           => ret' = io_writers[io_last].data ]_vars

\* C34: the read cache is time-bounded. A read made while the cached entry is
\* younger than cache_ttl returns the cached entry; a read made cache_ttl or
\* more after the entry was cached reads the file again and returns the
\* file's content as it is at that moment, also when the file was rewritten
\* from outside.
C34_TimeBoundedCache ==
    [][ (/\ obj = "OptimizedFileIO"
         /\ call'.op = "read_json_cached" /\ call' # call
         /\ file_cache.exists)
        => IF cache_age < cache_ttl
           THEN ret' = file_cache.data
           ELSE /\ io_file.exists /\ io_file.kind = "object"
                /\ ret' = io_file.members
                /\ file_cache' = [exists |-> TRUE, data |-> io_file.members] ]_vars

\* C35: in every state of an open session, of the ZeldaManager and of the
\* StatsTracker alike, the counts in tools_used add up to the session's
\* total_commands.
C35_ToolsSumToTotal ==
    /\ (obj = "ZeldaManager" /\ current_session # NoSession)
           => DictSum(current_session.tools_used) = current_session.total_commands
    /\ (obj = "StatsTracker" /\ st_current_session # NoSession)
           => DictSum(st_current_session.tools_used) = st_current_session.total_commands

\* An open session in which one tool was used twice and another once
C35_Witness ==
    /\ obj = "ZeldaManager"
    /\ current_session # NoSession
    /\ current_session.total_commands = 3
    /\ current_session.tools_used = << <<"Bash", 2>>, <<"Edit", 1>> >>

\* C36: fed the same events from a fresh state, with sounds.combo enabled,
\* ComboTracker.record_action and ZeldaManager._update_combo return the same
\* cue at every event and keep the same current_streak, highest_streak,
\* last_level_reached and total_combos_achieved.
C36_SameCueSameState ==
    [][ (obj = "Combos" /\ config.combo /\ call'.op = "event")
        => /\ ret'[2] = (IF ret'[1][1] # None THEN ret'[1][1] ELSE ret'[1][2])
           /\ state'.current_streak = combo_state'.current_streak
           /\ state'.highest_streak = combo_state'.highest_streak
           /\ state'.last_level_reached = combo_state'.last_level_reached
           /\ state'.total_combos_achieved = combo_state'.total_combos_achieved ]_vars

\* Both announce SILVER for the second time, in a streak begun after a break
C36_Witness ==
    /\ obj = "Combos"
    /\ config.combo
    /\ call.op = "event"
    /\ ret = << <<"heart_get.wav", None>>, "heart_get.wav" >>
    /\ state.current_streak = 5
    /\ state.highest_streak > 5
    /\ combo_state.last_level_reached = "SILVER"
    /\ combo_state.total_combos_achieved = 4

\* C37: after every update_progress each collector achievement is unlocked
\* as soon as the number of unlocked achievements, the collectors unlocked by
\* that same call included, has reached its requirement (5, 10, 20): no
\* collector waits for the next call.
C37_CollectorsNeverLag ==
    obj = "AchievementManager" =>
        LET total_unlocked == Cardinality({aid \in DOMAIN progress : progress[aid].unlocked})
        IN  \A i \in 1..Len(Collectors) :
                total_unlocked >= progress[Collectors[i]].requirement
                    => progress[Collectors[i]].unlocked

\* C38: every achievement of the catalog can be obtained through
\* check_command_achievements: once calls with counters at or above every
\* requirement (1000 commands, streak 50, 50 error-free, 20 tools) have
\* nothing left to change, all 23 achievements, the three speedrunner entries
\* and completionist included, are unlocked.
C38_AllObtainable ==
    (/\ obj = "AchievementManager"
     /\ AchievementManager_update_progress(
            progress, CommandUpdates(1000, 50, 50, 20)).progress = progress)
        => \A aid \in CatalogIds : progress[aid].unlocked

\* C39: an operation that itself calls add_operation on the BatchProcessor
\* that runs it completes: whichever thread flushes it and however the
\* background flusher interleaves, the operation returns, the flush ends and
\* the lock is released.
C39_ReentrantOperationCompletes ==
    \A n \in ReentrantOps :
        (obj = "BatchProcessor" /\ n \in running)
            ~> (executed[n] = 1 /\ n \notin running /\ lock = "free")

\* C40: when end_session has failed part-way because a file write raised,
\* an end_session that follows on the same session adds nothing more: the
\* all-time total_commands, total_successes and total_failures have grown by
\* the session's counters exactly once in total.
C40_FoldedOnceAcrossRetry ==
    [][ (/\ obj = "ZeldaManager"
         /\ call.op = "end_session" /\ "raised" \in DOMAIN call
         /\ current_session # NoSession
         /\ call'.op = "end_session" /\ call' # call)
        => /\ all_time_stats'.total_commands = all_time_stats.total_commands
           /\ all_time_stats'.total_successes = all_time_stats.total_successes
           /\ all_time_stats'.total_failures = all_time_stats.total_failures ]_vars

====
